---------------------------- MODULE Spec2Model ----------------------------
(***************************************************************************)
(* A model of the cFE Executive Services application lifecycle code of     *)
(* cfe_es_apps.c: the startup-script parser, the application registry      *)
(* (create, scan, control-request processing, clean-up) and the task       *)
(* resource sweeper.                                                        *)
(***************************************************************************)
EXTENDS Integers, Sequences, FiniteSets, TLC

(***************************************************************************)
(* Program constants                                                        *)
(***************************************************************************)
ES_START_BUFF_SIZE == 128

(* CFE_ES_STARTSCRIPT_MAX_TOKENS_PER_LINE; ParseFileEntry needs 8 tokens.   *)
MAX_TOKENS_PER_LINE == 8

MIN_ENTRY_TOKENS == 8

(* CFE_ES_AppState: UNDEFINED < EARLY_INIT < LATE_INIT < RUNNING < WAITING  *)
(* < STOPPED.                                                               *)
UNDEFINED == 0

EARLY_INIT == 1

LATE_INIT == 2

RUNNING == 3

WAITING == 4

STOPPED == 5

(* CFE_ES_AppType; a record zeroed by memset has type 0.                     *)
TYPE_NONE == 0

CORE == 1

EXTERNAL == 2

(* CFE_ES_RunStatus control requests.                                        *)
APP_RUN == 1

APP_EXIT == 2

APP_ERROR == 3

SYS_DELETE == 4

SYS_RESTART == 5

SYS_RELOAD == 6

SYS_EXCEPTION == 7

(* A request value outside the enumeration.                                  *)
UNKNOWN_REQUEST == 8


(***************************************************************************)
(* Bounds of the model                                                      *)
(***************************************************************************)
(* CFE_PLATFORM_ES_MAX_APPLICATIONS, OS_MAX_TASKS, CFE_PLATFORM_ES_MAX_     *)
(* LIBRARIES and the OSAL module table, scaled down.                        *)
MaxApps == 2

MaxTasks == 2

MaxLibs == 2

MaxModules == 2

(* CFE_PLATFORM_ES_APP_SCAN_RATE (ms) and CFE_PLATFORM_ES_APP_KILL_TIMEOUT  *)
(* (scans), scaled down.                                                    *)
APP_SCAN_RATE == 2

APP_KILL_TIMEOUT == 2

(* Largest ElapsedTime of one tick.                                         *)
MaxElapsed == 2

(* Calls of CFE_ES_AppCreate and CFE_ES_LoadLibrary made by the tasks other *)
(* than the scan, writes of a control request, and increments of the        *)
(* command counter that are explored.                                       *)
MaxCalls == 2

(* The counters are uint32 in the code; the model wraps them at this        *)
(* modulus, which the model checker's integers can hold.                    *)
UintModulus == 65536

MaxRequests == 2

MaxCommands == 1

(* OS_MAX_API_NAME, scaled down: a name field holds OS_MAX_API_NAME - 1     *)
(* characters and a NUL.                                                    *)
OS_MAX_API_NAME == 3

OS_MAX_PATH_LEN == 4

(* Objects the OSAL enumerator reports in one pass of the sweeper.          *)
MaxObjects == 3

(* Number of read steps of the startup file that are explored.             *)
MaxReads == 9

(* Length of a run of data bytes that the file delivers in one read step.  *)
Chunk == 120

(* Length of the shorter run of data bytes; Chunk + Rest + 1 is the size of *)
(* the buffer.                                                              *)
Rest == 7

(***************************************************************************)
(* State                                                                    *)
(***************************************************************************)
VARIABLES
    \* ---- CFE_ES_StartApplications locals
    saPc,          \* "open", "loop", "closed"
    BuffLen,       \* uint32 BuffLen
    NumTokens,     \* uint32 NumTokens
    LineTooLong,   \* bool LineTooLong
    TokenList,     \* TokenList[k]: offset into ES_AppLoadBuffer, -1 if never set
    \* ---- observation of the parser
    nReads,        \* read steps taken so far
    bufMaxWrite,   \* highest index of ES_AppLoadBuffer written (-1: none)
    tokMaxHanded,  \* highest token offset handed to ParseFileEntry and read by it
    nDispatched,   \* calls of CFE_ES_ParseFileEntry
    nTooLong,      \* "line is too long" log entries
    lastEntry,     \* what the last call of ParseFileEntry got and returned
    sentinel,      \* the end-of-stream character '!' has been read
    \* ---- CFE_ES_Global
    AppTable,
    TaskTable,
    LibTable,
    RegisteredTasks,
    RegisteredExternalApps,
    RegisteredLibs,
    lock,          \* holder of the shared-data lock, or NoThread
    CommandCounter,\* CFE_ES_TaskData.CommandCounter
    \* ---- the OSAL
    osal,          \* loaded modules, live tasks, and for whom they were made
    \* ---- threads: where each is, and the locals of the function it runs
    pc,
    ac,            \* CFE_ES_AppCreate
    ll,            \* CFE_ES_LoadLibrary
    scan,          \* CFE_ES_RunAppTableScan and its CFE_ES_AppTableScanState_t
    pcr,           \* CFE_ES_ProcessControlRequest
    cu,            \* CFE_ES_CleanUpApp
    sw,            \* CFE_ES_CleanupTaskResources and its CFE_ES_CleanupState_t
    \* ---- observation of the registry
    hist

parseVars == <<saPc, BuffLen, NumTokens, LineTooLong, TokenList, nReads,
               bufMaxWrite, tokMaxHanded, nDispatched, nTooLong, lastEntry,
               sentinel>>

appVars == <<AppTable, TaskTable, RegisteredTasks, RegisteredExternalApps>>

libVars == <<LibTable, RegisteredLibs>>

scanVars == <<scan, pcr, cu, CommandCounter>>

regVars == <<appVars, libVars, lock, osal, pc, ac, ll, scanVars, hist>>

vars == <<parseVars, regVars, sw>>

Max(a, b) == IF a >= b THEN a ELSE b

Min(a, b) == IF a <= b THEN a ELSE b

TokIdx == 0 .. (MAX_TOKENS_PER_LINE - 1)

(***************************************************************************)
(* CFE_ES_StartApplications                                                 *)
(***************************************************************************)
NoEntry == [called |-> FALSE, numTokens |-> 0, tokens |-> <<>>, read |-> FALSE,
            tooLongBefore |-> 0, type |-> "none", status |-> "none",
            rejectedBefore |-> 0]

InitParse ==
    /\ saPc = "open"
    /\ BuffLen = 0
    /\ NumTokens = 0
    /\ LineTooLong = FALSE
    /\ TokenList = [k \in TokIdx |-> -1]
    /\ nReads = 0
    /\ bufMaxWrite = -1
    /\ tokMaxHanded = -1
    /\ nDispatched = 0
    /\ nTooLong = 0
    /\ lastEntry = NoEntry
    /\ sentinel = FALSE

(* The two-file policy: a processor reset tries the volatile file first;   *)
(* the nonvolatile file is tried when that fails or on a power-on reset.    *)
FileOpened(processorReset, volatileOk, nonvolatileOk) ==
    IF processorReset /\ volatileOk THEN TRUE ELSE nonvolatileOk

SA_Open(processorReset, volatileOk, nonvolatileOk) ==
    /\ saPc = "open"
    /\ IF FileOpened(processorReset, volatileOk, nonvolatileOk)
       THEN /\ saPc' = "loop"
            /\ BuffLen' = 0
            /\ NumTokens' = 0
            /\ TokenList' = [TokenList EXCEPT ![0] = 0]
       ELSE /\ saPc' = "closed"
            /\ UNCHANGED <<BuffLen, NumTokens, TokenList>>
    /\ UNCHANGED <<LineTooLong, nReads, bufMaxWrite, tokMaxHanded,
                   nDispatched, nTooLong, lastEntry, sentinel>>
    /\ UNCHANGED <<regVars, sw>>

(* Regular data, lines 201-215.  One byte at BuffLen = len is stored when   *)
(* len < ES_START_BUFF_SIZE, and sets LineTooLong otherwise; BuffLen is     *)
(* incremented either way.  DataRun gives the result of n such bytes in a   *)
(* row (n >= 1): the bytes land at len .. len+n-1, those below the buffer   *)
(* size are stored, and LineTooLong is set when one of them is not.         *)
DataRun(st, n) ==
    [len |-> st.len + n,
     tooLong |-> IF st.len + n - 1 < ES_START_BUFF_SIZE THEN st.tooLong ELSE TRUE,
     mw |-> IF st.len < ES_START_BUFF_SIZE
            THEN Max(st.mw, Min(st.len + n - 1, ES_START_BUFF_SIZE - 1))
            ELSE st.mw]

SA_ReadData(n) ==
    /\ saPc = "loop"
    /\ pc["SU"] = "idle"
    /\ nReads < MaxReads
    /\ LET r == DataRun([len |-> BuffLen, tooLong |-> LineTooLong,
                         mw |-> bufMaxWrite], n)
       IN /\ BuffLen' = r.len
          /\ LineTooLong' = r.tooLong
          /\ bufMaxWrite' = r.mw
    /\ nReads' = nReads + 1
    /\ UNCHANGED <<saPc, NumTokens, TokenList, tokMaxHanded, nDispatched,
                   nTooLong, lastEntry, sentinel>>
    /\ UNCHANGED <<regVars, sw>>

(* White space (c <= ' ') is skipped: lines 169-175.                        *)
SA_ReadSpace ==
    /\ saPc = "loop"
    /\ pc["SU"] = "idle"
    /\ nReads < MaxReads
    /\ nReads' = nReads + 1
    /\ UNCHANGED <<saPc, BuffLen, NumTokens, LineTooLong, TokenList,
                   bufMaxWrite, tokMaxHanded, nDispatched, nTooLong, lastEntry,
                   sentinel>>
    /\ UNCHANGED <<regVars, sw>>

(* A comma: lines 176-200.                                                  *)
SA_ReadComma ==
    /\ saPc = "loop"
    /\ pc["SU"] = "idle"
    /\ nReads < MaxReads
    /\ IF BuffLen < ES_START_BUFF_SIZE
       THEN /\ bufMaxWrite' = Max(bufMaxWrite, BuffLen)
            /\ UNCHANGED LineTooLong
       ELSE /\ LineTooLong' = TRUE
            /\ UNCHANGED bufMaxWrite
    /\ BuffLen' = BuffLen + 1
    /\ IF NumTokens < MAX_TOKENS_PER_LINE - 1
       THEN /\ NumTokens' = NumTokens + 1
            /\ TokenList' = [TokenList EXCEPT ![NumTokens + 1] = BuffLen + 1]
       ELSE UNCHANGED <<NumTokens, TokenList>>
    /\ nReads' = nReads + 1
    /\ UNCHANGED <<saPc, tokMaxHanded, nDispatched, nTooLong, lastEntry, sentinel>>
    /\ UNCHANGED <<regVars, sw>>

PcKeptAfterSentinel == "loop"

(* Lines 239-245: the '!' breaks out of the read loop.                      *)
PcAfterSentinel == "closed"

(* '!' (bang), end of file or a read error end the loop: lines 155-166 and  *)
(* 239-245.                                                                 *)
SA_ReadEnd(bang) ==
    /\ saPc = "loop"
    /\ pc["SU"] = "idle"
    /\ ~sentinel
    /\ saPc' = IF bang THEN PcAfterSentinel ELSE "closed"
    /\ sentinel' = bang
    /\ UNCHANGED <<BuffLen, NumTokens, LineTooLong, TokenList, nReads,
                   bufMaxWrite, tokMaxHanded, nDispatched, nTooLong, lastEntry>>
    /\ UNCHANGED <<regVars, sw>>

(***************************************************************************)
(* The registry: threads, identifiers, records                              *)
(***************************************************************************)
(* BG is the background task that runs the table scan; CMD and SU are the   *)
(* command task and the startup context, which create apps and libraries.   *)
Threads == {"BG", "CMD", "SU"}

NoThread == "none"

AppIdx == 0 .. (MaxApps - 1)

TaskIdx == 0 .. (MaxTasks - 1)

LibIdx == 0 .. (MaxLibs - 1)

(* OSAL identifiers; 0 is never a valid identifier.                         *)
TaskIds == 1 .. MaxTasks

ModuleIds == 1 .. MaxModules

Inc32(x) == (x + 1) % UintModulus

Dec32(x) == (x - 1) % UintModulus

(* strncpy(dst, src, N); dst[N - 1] = 0: at most N - 1 characters are kept. *)
CopyName(str) == SubSeq(str, 1, Min(Len(str), OS_MAX_API_NAME - 1))

CopyPath(str) == SubSeq(str, 1, Min(Len(str), OS_MAX_PATH_LEN - 1))

(* OS_ConvertToArrayIndex: the array index of a valid identifier.           *)
ArrayIndex(id) == id - 1

ValidTaskId(id) == id \in TaskIds

(* The arguments of CFE_ES_AppCreate that the callers of this model pass.   *)
ParamSet ==
    { [Name |-> <<1>>, EntryPoint |-> <<1>>, FileName |-> <<1>>,
       StackSize |-> 1, Priority |-> 1, ExceptionAction |-> 0],
      [Name |-> <<2, 2, 2>>, EntryPoint |-> <<2>>, FileName |-> <<2>>,
       StackSize |-> 2, Priority |-> 2, ExceptionAction |-> 1] }

NoParams == [Name |-> <<>>, EntryPoint |-> <<>>, FileName |-> <<>>,
             StackSize |-> 0, Priority |-> 0, ExceptionAction |-> 0]

ZeroStartParams ==
    [Name |-> <<>>, EntryPoint |-> <<>>, FileName |-> <<>>, StackSize |-> 0,
     Priority |-> 0, ExceptionAction |-> 0, StartAddress |-> 0, ModuleId |-> 0]

(* An AppRecord after memset(.., 0, ..).                                     *)
ZeroAppRecord ==
    [AppState |-> UNDEFINED, Type |-> TYPE_NONE, StartParams |-> ZeroStartParams,
     MainTaskId |-> 0, MainTaskName |-> <<>>,
     AppControlRequest |-> 0, AppTimerMsec |-> 0]

ZeroTaskRecord == [RecordUsed |-> FALSE, AppId |-> 0, TaskId |-> 0, TaskName |-> <<>>]

ZeroLibRecord == [RecordUsed |-> FALSE, LibName |-> <<>>]

NoFrame == [p |-> NoParams, i |-> -1, ModuleId |-> 0, StartAddr |-> 0,
            claimed |-> FALSE, released |-> FALSE, unloadFailed |-> FALSE]

NoReturn == [code |-> "none", id |-> -1, claimed |-> FALSE, released |-> FALSE,
             modLeft |-> FALSE, unloadFailed |-> FALSE, bound |-> FALSE,
             counted |-> FALSE]

NoLibFrame == [name |-> <<>>, file |-> FALSE, entry |-> "none", slot |-> -1,
               Status |-> "none", ModuleId |-> 0, IsModuleLoaded |-> FALSE,
               FunctionPointer |-> FALSE, unloadCalled |-> FALSE]

NoLibReturn == [code |-> "none", id |-> -1, name |-> <<>>, claimed |-> FALSE,
                loaded |-> FALSE, unloadCalled |-> FALSE, released |-> FALSE,
                counted |-> FALSE, wrote |-> FALSE, held |-> <<>>]

GraceTimerStartShort == APP_KILL_TIMEOUT

(* Line 862: the grace timer of an app that enters WAITING.                 *)
GraceTimerStart == APP_KILL_TIMEOUT * APP_SCAN_RATE

(* What is observed of one call of CFE_ES_CleanUpApp: the counters and the  *)
(* child tasks when it takes the lock, the steps that ran and whether one   *)
(* failed, and what it leaves when it releases the lock.                    *)
NoCleanObs ==
    [apps0 |-> 0, tasks0 |-> 0, children |-> 0, kids |-> {}, steps |-> 0,
     failed |-> FALSE, done |-> FALSE, ext |-> FALSE, dApps |-> 0, dTasks |-> 0,
     state |-> -1, mainLive |-> FALSE, kidsLive |-> FALSE, modLive |-> FALSE,
     staleRecords |-> FALSE, rc |-> "none", trace |-> <<>>]

InitHist ==
    [creates |-> 0, requests |-> 0, libLoads |-> 0,
     graceAcc |-> [i \in AppIdx |-> -1],
     scanAcc |-> [i \in AppIdx |-> -1],
     visAcc |-> [i \in AppIdx |-> -1],
     pcrCount |-> [i \in AppIdx |-> 0],
     excWrites |-> [i \in AppIdx |-> 0],
     excEvents |-> [i \in AppIdx |-> 0],
     healAge |-> [i \in AppIdx |-> -1],
     waitCount |-> [i \in AppIdx |-> 0],
     obsReq |-> [i \in AppIdx |-> 0],
     overwritten |-> [i \in AppIdx |-> FALSE],
     cuObs |-> NoCleanObs,
     torn |-> ZeroStartParams,
     acRet |-> [t \in Threads |-> NoReturn],
     llRet |-> [t \in Threads |-> NoLibReturn]]

InitScan == [ElapsedTime |-> 0, i |-> 0, PendingAppStateChanges |-> 0,
             LastScanCommandCount |-> 0, BackgroundScanTimer |-> APP_SCAN_RATE]

InitPcr == [AppID |-> 0, AppStartParams |-> ZeroStartParams, Request |-> 0,
            Status |-> "none", Event |-> "none"]

InitCu == [AppId |-> 0, ReturnCode |-> "CFE_SUCCESS", MainTaskId |-> 0, i |-> 0]

InitSw == [pc |-> "off", TaskId |-> 0, ErrorFlag |-> 0, FoundObjects |-> 0,
           PrevFoundObjects |-> 0, DeletedObjects |-> 0,
           OverallStatus |-> "CFE_SUCCESS", Result |-> "none", seen |-> 0,
           worst |-> 0]

InitReg ==
    /\ AppTable = [i \in AppIdx |-> ZeroAppRecord]
    /\ TaskTable = [k \in TaskIdx |-> ZeroTaskRecord]
    /\ LibTable = [k \in LibIdx |-> ZeroLibRecord]
    /\ RegisteredTasks = 0
    /\ RegisteredExternalApps = 0
    /\ RegisteredLibs = 0
    /\ lock = NoThread
    /\ CommandCounter = 0
    /\ osal = [modules |-> {}, tasks |-> {},
               modFor |-> [m \in ModuleIds |-> -1],
               taskFor |-> [k \in TaskIds |-> -1],
               failed |-> FALSE]
    /\ pc = [t \in Threads |-> "idle"]
    /\ ac = [t \in Threads |-> NoFrame]
    /\ ll = [t \in Threads |-> NoLibFrame]
    /\ scan = InitScan
    /\ pcr = InitPcr
    /\ cu = InitCu
    /\ hist = InitHist

(* The observers of slot i start afresh when the slot changes hands.        *)
Forget(i) ==
    [hist EXCEPT !.graceAcc[i] = -1, !.scanAcc[i] = -1, !.visAcc[i] = -1,
                 !.pcrCount[i] = 0, !.excWrites[i] = 0, !.excEvents[i] = 0,
                 !.healAge[i] = -1, !.waitCount[i] = 0, !.obsReq[i] = 0,
                 !.overwritten[i] = FALSE]

(* The OSAL hands out the lowest free identifier.                           *)
LowestOf(S) == CHOOSE x \in S : \A y \in S : x <= y

FreeModules == ModuleIds \ osal.modules

FreeTasks == TaskIds \ osal.tasks

(***************************************************************************)
(* CFE_ES_AppCreate, lines 356-549, run by thread t                         *)
(***************************************************************************)
(* Where the caller continues: the scan thread calls CFE_ES_AppCreate from  *)
(* CFE_ES_ProcessControlRequest, the others call it directly.               *)
AfterCreate(t) == IF t = "BG" THEN "pcr_created" ELSE "idle"

AC_Returns(t, code, id, frame, modLeft, bound, counted) ==
    /\ pc' = [pc EXCEPT ![t] = AfterCreate(t)]
    /\ ac' = [ac EXCEPT ![t] = NoFrame]
    /\ hist' = [hist EXCEPT !.acRet[t] =
                   [code |-> code, id |-> id, claimed |-> frame.claimed,
                    released |-> frame.released, modLeft |-> modLeft,
                    unloadFailed |-> frame.unloadFailed, bound |-> bound,
                    counted |-> counted]]

FreeAppSlotsAny == AppIdx

(* Lines 384-394: the first slot in state UNDEFINED, or -1.                  *)
FreeAppSlots == {i \in AppIdx : AppTable[i].AppState = UNDEFINED}

FirstFreeAppSlot == IF FreeAppSlots = {} THEN -1 ELSE LowestOf(FreeAppSlots)

StateAfterClaimRunning == RUNNING

(* Line 391: the state of a slot that has just been claimed.                *)
StateAfterClaim == EARLY_INIT

LockKeptAfterClaim(t) == t

(* Line 395: the lock is released after the slot search.                    *)
LockAfterClaim(t) == NoThread

(* Lines 374-377: a NULL FileName.                                           *)
AC_NullFile(t) ==
    /\ pc[t] = "ac_call_null"
    /\ AC_Returns(t, "CFE_ES_ERR_APP_CREATE", -1, ac[t], FALSE, FALSE, FALSE)
    /\ UNCHANGED <<appVars, libVars, lock, osal, ll, scanVars>>
    /\ UNCHANGED <<parseVars, sw>>

(* Lines 382-400 and 543-547: claim a slot under the lock.                   *)
AC_Claim(t) ==
    /\ pc[t] = "ac_claim"
    /\ lock = NoThread
    /\ LET i == FirstFreeAppSlot
       IN IF i >= 0
          THEN /\ AppTable' = [AppTable EXCEPT
                                  ![i] = [ZeroAppRecord EXCEPT !.AppState = StateAfterClaim]]
               /\ ac' = [ac EXCEPT ![t].i = i, ![t].claimed = TRUE]
               /\ pc' = [pc EXCEPT ![t] = "ac_load"]
               /\ lock' = LockAfterClaim(t)
               /\ hist' = Forget(i)
          ELSE /\ AC_Returns(t, "CFE_ES_ERR_APP_CREATE", -1, ac[t], FALSE, FALSE, FALSE)
               /\ UNCHANGED <<AppTable, lock>>
    /\ UNCHANGED <<TaskTable, RegisteredTasks, RegisteredExternalApps, libVars,
                   osal, ll, scanVars>>
    /\ UNCHANGED <<parseVars, sw>>

(* Line 405: OS_ModuleLoad.                                                  *)
AC_ModuleLoad(t, ok) ==
    /\ pc[t] = "ac_load"
    /\ IF ok /\ FreeModules # {}
       THEN LET m == LowestOf(FreeModules)
            IN /\ osal' = [osal EXCEPT !.modules = @ \cup {m},
                                       !.modFor[m] = ac[t].i]
               /\ ac' = [ac EXCEPT ![t].ModuleId = m]
               /\ pc' = [pc EXCEPT ![t] = "ac_sym"]
       ELSE /\ pc' = [pc EXCEPT ![t] = "ac_loadfail"]
            /\ UNCHANGED <<osal, ac>>
    /\ UNCHANGED <<appVars, libVars, lock, ll, scanVars, hist>>
    /\ UNCHANGED <<parseVars, sw>>

(* Lines 433-443: the load failed; release the slot.                         *)
AC_LoadFailed(t) ==
    /\ pc[t] = "ac_loadfail"
    /\ lock = NoThread
    /\ AppTable' = [AppTable EXCEPT ![ac[t].i].AppState = UNDEFINED]
    /\ AC_Returns(t, "CFE_ES_ERR_APP_CREATE", -1,
                  [ac[t] EXCEPT !.released = TRUE], FALSE, FALSE, FALSE)
    /\ UNCHANGED <<TaskTable, RegisteredTasks, RegisteredExternalApps, libVars,
                   lock, osal, ll, scanVars>>
    /\ UNCHANGED <<parseVars, sw>>

(* Line 412: OS_SymbolLookup.                                                *)
AC_SymbolLookup(t, ok) ==
    /\ pc[t] = "ac_sym"
    /\ IF ok
       THEN /\ ac' = [ac EXCEPT ![t].StartAddr = 1]
            /\ pc' = [pc EXCEPT ![t] = "ac_populate"]
       ELSE /\ pc' = [pc EXCEPT ![t] = "ac_symfail"]
            /\ UNCHANGED ac
    /\ UNCHANGED <<appVars, libVars, lock, osal, ll, scanVars, hist>>
    /\ UNCHANGED <<parseVars, sw>>

(* Lines 418-420: the symbol was not found; release the slot.                *)
AC_SymbolFailed(t) ==
    /\ pc[t] = "ac_symfail"
    /\ lock = NoThread
    /\ AppTable' = [AppTable EXCEPT ![ac[t].i].AppState = UNDEFINED]
    /\ ac' = [ac EXCEPT ![t].released = TRUE]
    /\ pc' = [pc EXCEPT ![t] = "ac_unload"]
    /\ UNCHANGED <<TaskTable, RegisteredTasks, RegisteredExternalApps, libVars,
                   lock, osal, ll, scanVars, hist>>
    /\ UNCHANGED <<parseVars, sw>>

(* Lines 423-430: unload the module again and return the error.              *)
AC_Unload(t, ok) ==
    /\ pc[t] = "ac_unload"
    /\ osal' = IF ok THEN [osal EXCEPT !.modules = @ \ {ac[t].ModuleId}]
                     ELSE [osal EXCEPT !.failed = TRUE]
    /\ AC_Returns(t, "CFE_ES_ERR_APP_CREATE", -1,
                  [ac[t] EXCEPT !.unloadFailed = ~ok], ~ok, FALSE, FALSE)
    /\ UNCHANGED <<appVars, libVars, lock, ll, scanVars>>
    /\ UNCHANGED <<parseVars, sw>>

(* Lines 448-483: populate the record under the lock, which stays held      *)
(* for the task creation.                                                   *)
PopulatedRecord(rec, frame) ==
    [rec EXCEPT
        !.Type = EXTERNAL,
        !.StartParams = [Name |-> CopyName(frame.p.Name),
                         EntryPoint |-> CopyName(frame.p.EntryPoint),
                         FileName |-> CopyPath(frame.p.FileName),
                         StackSize |-> frame.p.StackSize,
                         Priority |-> frame.p.Priority,
                         ExceptionAction |-> frame.p.ExceptionAction,
                         StartAddress |-> frame.StartAddr,
                         ModuleId |-> frame.ModuleId],
        !.MainTaskName = CopyName(frame.p.Name),
        !.AppControlRequest = APP_RUN,
        !.AppTimerMsec = 0]

AC_Populate(t) ==
    /\ pc[t] = "ac_populate"
    /\ lock = NoThread
    /\ lock' = t
    /\ AppTable' = [AppTable EXCEPT ![ac[t].i] = PopulatedRecord(@, ac[t])]
    /\ pc' = [pc EXCEPT ![t] = "ac_taskcreate"]
    /\ UNCHANGED <<TaskTable, RegisteredTasks, RegisteredExternalApps, libVars,
                   osal, ac, ll, scanVars, hist>>
    /\ UNCHANGED <<parseVars, sw>>

(* Lines 497-535: RegisteredExternalApps is incremented only when the main  *)
(* task was created.                                                        *)
ExternalAppsAfterCreate(n, created) == IF created THEN Inc32(n) ELSE n

(* Lines 488-541: OS_TaskCreate with the lock held, then either the task    *)
(* record is bound and the counters incremented, or the slot is released.   *)
AC_TaskCreate(t, ok) ==
    /\ pc[t] = "ac_taskcreate"
    /\ LET i == ac[t].i
           created == ok /\ FreeTasks # {}
       IN /\ RegisteredExternalApps' =
                 ExternalAppsAfterCreate(RegisteredExternalApps, created)
          /\ IF created
             THEN LET tid == LowestOf(FreeTasks)
                      k == ArrayIndex(tid)
                  IN /\ osal' = [osal EXCEPT !.tasks = @ \cup {tid},
                                             !.taskFor[tid] = i]
                     /\ AppTable' = [AppTable EXCEPT ![i].MainTaskId = tid]
                     /\ TaskTable' = [TaskTable EXCEPT
                                         ![k] = [RecordUsed |-> TRUE, AppId |-> i,
                                                 TaskId |-> tid,
                                                 TaskName |-> CopyName(AppTable[i].MainTaskName)]]
                     /\ RegisteredTasks' = Inc32(RegisteredTasks)
                     /\ AC_Returns(t, "CFE_SUCCESS", i, ac[t], FALSE, TRUE, TRUE)
             ELSE /\ AppTable' = [AppTable EXCEPT ![i].AppState = UNDEFINED]
                  /\ AC_Returns(t, "CFE_ES_ERR_APP_CREATE", -1,
                                [ac[t] EXCEPT !.released = TRUE],
                                ac[t].ModuleId \in osal.modules, FALSE, FALSE)
                  /\ UNCHANGED <<TaskTable, RegisteredTasks, osal>>
    /\ lock' = NoThread
    /\ UNCHANGED <<libVars, ll, scanVars>>
    /\ UNCHANGED <<parseVars, sw>>

(* A caller (the startup script or the start-app command) calls             *)
(* CFE_ES_AppCreate with a file name, or with a NULL file name.             *)
AC_Start(t, p) ==
    /\ t # "BG"
    /\ pc[t] = "idle"
    /\ hist.creates + hist.libLoads < MaxCalls
    /\ ac' = [ac EXCEPT ![t] = [NoFrame EXCEPT !.p = p]]
    /\ pc' = [pc EXCEPT ![t] = "ac_claim"]
    /\ hist' = [hist EXCEPT !.creates = @ + 1, !.acRet[t] = NoReturn]
    /\ UNCHANGED <<appVars, libVars, lock, osal, ll, scanVars>>

AC_Call(t, p) == AC_Start(t, p) /\ UNCHANGED <<parseVars, sw>>

AC_CallNull(t) ==
    /\ t # "BG"
    /\ pc[t] = "idle"
    /\ hist.creates + hist.libLoads < MaxCalls
    /\ pc' = [pc EXCEPT ![t] = "ac_call_null"]
    /\ hist' = [hist EXCEPT !.creates = @ + 1, !.acRet[t] = NoReturn]
    /\ UNCHANGED <<appVars, libVars, lock, osal, ac, ll, scanVars>>
    /\ UNCHANGED <<parseVars, sw>>

AppCreate(t) ==
    \/ AC_NullFile(t)
    \/ AC_Claim(t)
    \/ \E ok \in BOOLEAN : AC_ModuleLoad(t, ok)
    \/ AC_LoadFailed(t)
    \/ \E ok \in BOOLEAN : AC_SymbolLookup(t, ok)
    \/ AC_SymbolFailed(t)
    \/ \E ok \in BOOLEAN : AC_Unload(t, ok)
    \/ AC_Populate(t)
    \/ \E ok \in BOOLEAN : AC_TaskCreate(t, ok)

(***************************************************************************)
(* CFE_ES_LoadLibrary, lines 558-767, run by thread t                       *)
(***************************************************************************)
(* The library names the callers of this model pass; the last one does not  *)
(* fit the LibName field.                                                   *)
LibNames == {<<1>>, <<2>>, <<3, 3, 3>>}

(* EntryPointData: a NULL pointer, the string "NULL", or a symbol name.     *)
EntryPoints == {"none", "NULL", "sym"}

LL_Returns(t, code, id, released, counted) ==
    /\ pc' = [pc EXCEPT ![t] = "idle"]
    /\ ll' = [ll EXCEPT ![t] = NoLibFrame]
    /\ hist' = [hist EXCEPT !.llRet[t] =
                   [code |-> code, id |-> id, name |-> ll[t].name,
                    claimed |-> ll[t].slot >= 0,
                    loaded |-> ll[t].IsModuleLoaded,
                    unloadCalled |-> ll[t].unloadCalled,
                    released |-> released, counted |-> counted,
                    wrote |-> LibTable' # LibTable \/ RegisteredLibs' # RegisteredLibs,
                    held |-> IF id \in LibIdx /\ LibTable'[id].RecordUsed
                             THEN LibTable'[id].LibName ELSE <<>>]]

(* Lines 575-579: the call, and the check of the name length.               *)
LL_Start(t, name, file, entry) ==
    /\ t # "BG"
    /\ pc[t] = "idle"
    /\ hist.creates + hist.libLoads < MaxCalls
    /\ IF Len(name) >= OS_MAX_API_NAME
       THEN /\ pc' = pc
            /\ ll' = ll
            /\ hist' = [hist EXCEPT !.libLoads = @ + 1,
                           !.llRet[t] = [NoLibReturn EXCEPT
                                            !.code = "CFE_ES_BAD_ARGUMENT",
                                            !.name = name]]
       ELSE /\ pc' = [pc EXCEPT ![t] = "ll_claim"]
            /\ ll' = [ll EXCEPT ![t] = [NoLibFrame EXCEPT !.name = name,
                                           !.file = file, !.entry = entry]]
            /\ hist' = [hist EXCEPT !.libLoads = @ + 1, !.llRet[t] = NoLibReturn]
    /\ UNCHANGED <<appVars, libVars, lock, osal, ac, scanVars>>

LL_Call(t, name, file, entry) ==
    LL_Start(t, name, file, entry) /\ UNCHANGED <<parseVars, sw>>

LibMatchesNone(name) == {}

(* Lines 590-619: the slots holding this name, and the free slots.          *)
LibMatches(name) == {k \in LibIdx : LibTable[k].RecordUsed /\ LibTable[k].LibName = name}

FreeLibSlots == {k \in LibIdx : ~LibTable[k].RecordUsed}

(* Lines 664, 694-696, 725, 744: the stage that runs next.                  *)
StageAfter(stage, f) ==
    IF f.Status = "CFE_SUCCESS" /\ stage < 2 /\ f.file THEN "ll_load"
    ELSE IF f.Status = "CFE_SUCCESS" /\ stage < 3 /\ f.entry = "sym" THEN "ll_sym"
    ELSE IF f.Status = "CFE_SUCCESS" /\ stage < 4 /\ f.FunctionPointer THEN "ll_init"
    ELSE IF f.Status = "CFE_SUCCESS" THEN "ll_commit"
    ELSE IF f.IsModuleLoaded THEN "ll_unload"
    ELSE "ll_release"

(* Lines 584-643: search and reserve a slot under the lock.                 *)
LL_Claim(t) ==
    /\ pc[t] = "ll_claim"
    /\ lock = NoThread
    /\ UNCHANGED <<appVars, RegisteredLibs, lock, osal, ac, scanVars>>
    /\ IF LibMatches(ll[t].name) # {}
       THEN /\ UNCHANGED LibTable
            /\ LL_Returns(t, "CFE_ES_LIB_ALREADY_LOADED",
                           LowestOf(LibMatches(ll[t].name)), FALSE, FALSE)
       ELSE IF FreeLibSlots # {}
       THEN LET k == LowestOf(FreeLibSlots)
                f == [ll[t] EXCEPT !.slot = k, !.Status = "CFE_SUCCESS"]
            IN /\ LibTable' = [LibTable EXCEPT ![k] = [RecordUsed |-> TRUE,
                                                      LibName |-> ll[t].name]]
               /\ ll' = [ll EXCEPT ![t] = f]
               /\ pc' = [pc EXCEPT ![t] = StageAfter(1, f)]
               /\ hist' = hist
       ELSE /\ UNCHANGED LibTable
            /\ LL_Returns(t, "CFE_ES_ERR_LOAD_LIB", -1, FALSE, FALSE)
    /\ UNCHANGED <<parseVars, sw>>

(* Lines 664-678: OS_ModuleLoad.                                             *)
LL_ModuleLoad(t, ok) ==
    /\ pc[t] = "ll_load"
    /\ LET loaded == ok /\ FreeModules # {}
           m == IF loaded THEN LowestOf(FreeModules) ELSE 0
           f == [ll[t] EXCEPT !.ModuleId = m, !.IsModuleLoaded = loaded,
                              !.Status = IF loaded THEN "CFE_SUCCESS"
                                         ELSE "CFE_ES_ERR_LOAD_LIB"]
       IN /\ osal' = IF loaded
                     THEN [osal EXCEPT !.modules = @ \cup {m}, !.modFor[m] = -1]
                     ELSE osal
          /\ ll' = [ll EXCEPT ![t] = f]
          /\ pc' = [pc EXCEPT ![t] = StageAfter(2, f)]
    /\ UNCHANGED <<appVars, libVars, lock, ac, scanVars, hist>>
    /\ UNCHANGED <<parseVars, sw>>

(* Lines 694-719: OS_SymbolLookup.                                           *)
LL_SymbolLookup(t, ok) ==
    /\ pc[t] = "ll_sym"
    /\ LET f == [ll[t] EXCEPT !.FunctionPointer = ok,
                              !.Status = IF ok THEN "CFE_SUCCESS"
                                         ELSE "CFE_ES_ERR_LOAD_LIB"]
       IN /\ ll' = [ll EXCEPT ![t] = f]
          /\ pc' = [pc EXCEPT ![t] = StageAfter(3, f)]
    /\ UNCHANGED <<appVars, libVars, lock, osal, ac, scanVars, hist>>
    /\ UNCHANGED <<parseVars, sw>>

(* Lines 725-735: the library's initialization routine.                     *)
LL_Init(t, ok) ==
    /\ pc[t] = "ll_init"
    /\ LET f == [ll[t] EXCEPT !.Status = IF ok THEN "CFE_SUCCESS" ELSE "LIB_INIT_ERROR"]
       IN /\ ll' = [ll EXCEPT ![t] = f]
          /\ pc' = [pc EXCEPT ![t] = StageAfter(4, f)]
    /\ UNCHANGED <<appVars, libVars, lock, osal, ac, scanVars, hist>>
    /\ UNCHANGED <<parseVars, sw>>

(* Lines 744-750: count the library under the lock.                         *)
LL_Commit(t) ==
    /\ pc[t] = "ll_commit"
    /\ lock = NoThread
    /\ RegisteredLibs' = Inc32(RegisteredLibs)
    /\ UNCHANGED <<appVars, LibTable, lock, osal, ac, scanVars>>
    /\ LL_Returns(t, "CFE_SUCCESS", ll[t].slot, FALSE, TRUE)
    /\ UNCHANGED <<parseVars, sw>>

(* Lines 756-759: unload the module; the result is ignored.                 *)
LL_Unload(t, ok) ==
    /\ pc[t] = "ll_unload"
    /\ osal' = IF ok THEN [osal EXCEPT !.modules = @ \ {ll[t].ModuleId}]
                     ELSE [osal EXCEPT !.failed = TRUE]
    /\ pc' = [pc EXCEPT ![t] = "ll_release"]
    /\ ll' = [ll EXCEPT ![t].unloadCalled = TRUE]
    /\ UNCHANGED <<appVars, libVars, lock, ac, scanVars, hist>>
    /\ UNCHANGED <<parseVars, sw>>

RecordUsedKeptAfterFailure == TRUE

(* Line 762: RecordUsed of the claimed slot after a failed load.            *)
RecordUsedAfterFailure == FALSE

(* Lines 761-765: release the slot, without the lock.                       *)
LL_Release(t) ==
    /\ pc[t] = "ll_release"
    /\ LibTable' = [LibTable EXCEPT ![ll[t].slot].RecordUsed = RecordUsedAfterFailure]
    /\ UNCHANGED <<appVars, RegisteredLibs, lock, osal, ac, scanVars>>
    /\ LL_Returns(t, ll[t].Status, ll[t].slot, ~LibTable'[ll[t].slot].RecordUsed, FALSE)
    /\ UNCHANGED <<parseVars, sw>>

LoadLibrary(t) ==
    \/ LL_Claim(t)
    \/ \E ok \in BOOLEAN : LL_ModuleLoad(t, ok)
    \/ \E ok \in BOOLEAN : LL_SymbolLookup(t, ok)
    \/ \E ok \in BOOLEAN : LL_Init(t, ok)
    \/ LL_Commit(t)
    \/ \E ok \in BOOLEAN : LL_Unload(t, ok)
    \/ LL_Release(t)

(***************************************************************************)
(* CFE_ES_ParseFileEntry, lines 263-343, called by the startup context SU   *)
(***************************************************************************)
(* What the tokens of a record say: the entry type, the arguments of an     *)
(* app, and the name and the entry point of a library.  The file name and   *)
(* the entry point are tokens, so neither is a NULL pointer.                *)
EntryTypes == {"CFE_APP", "CFE_LIB", "OTHER"}

EntryInputs ==
    [type : EntryTypes, p : ParamSet, name : {<<1>>}, entry : {"NULL", "sym"}]

(* An entry of a type that is not known.                                    *)
OtherEntries == {en \in EntryInputs : en.type = "OTHER" /\ en.p.StackSize = 1
                                                       /\ en.entry = "NULL"}

EntryCallAnyApp(numTokens, type) ==
    IF numTokens < MIN_ENTRY_TOKENS THEN "none"
    ELSE IF type = "CFE_LIB" THEN "CFE_ES_LoadLibrary"
    ELSE "CFE_ES_AppCreate"

(* Lines 277-338: the function that the entry makes ParseFileEntry call.    *)
EntryCall(numTokens, type) ==
    IF numTokens < MIN_ENTRY_TOKENS THEN "none"
    ELSE IF type = "CFE_APP" THEN "CFE_ES_AppCreate"
    ELSE IF type = "CFE_LIB" THEN "CFE_ES_LoadLibrary"
    ELSE "none"

(* Lines 273, 340: CreateStatus when no function was called; otherwise the  *)
(* status is the one that the called function returns.                     *)
EntryStatus(numTokens, type) ==
    IF EntryCall(numTokens, type) = "none" THEN "CFE_ES_ERR_APP_CREATE"
    ELSE "called"

(* Lines 263-343: one call of CFE_ES_ParseFileEntry.                        *)
ParseFileEntry(numTokens, en) ==
    LET call == EntryCall(numTokens, en.type)
    IN  IF call = "CFE_ES_AppCreate" THEN AC_Start("SU", en.p)
        ELSE IF call = "CFE_ES_LoadLibrary"
             THEN LL_Start("SU", en.name, TRUE, en.entry)
        ELSE UNCHANGED regVars

(* CFE_ES_ParseFileEntry as seen from the parser: with fewer than 8 tokens  *)
(* it returns before looking at any token; otherwise it reads the strings  *)
(* at TokenList[0..5] and TokenList[7].                                     *)
EntryReadsTokens(numTokens) == numTokens >= MIN_ENTRY_TOKENS

EntryMaxOffset(tl, numTokens) ==
    IF EntryReadsTokens(numTokens) THEN tl[7] ELSE -1

LineTooLongKeptAfterLog == TRUE

(* Line 224: the flag after the too-long record was logged.                 *)
LineTooLongAfterLog == FALSE

TokensHandedPlain(n) == n

(* Line 233: the number of tokens handed to CFE_ES_ParseFileEntry.          *)
TokensHanded(n) == 1 + n

(* A semicolon: lines 216-237.  en is what the record holds: its entry     *)
(* type and the strings of its other tokens.                                *)
SA_ReadSemicolon(en) ==
    /\ saPc = "loop"
    /\ nReads < MaxReads
    /\ pc["SU"] = "idle"
    /\ IF LineTooLong
       THEN /\ nTooLong' = nTooLong + 1
            /\ LineTooLong' = LineTooLongAfterLog
            /\ UNCHANGED <<bufMaxWrite, tokMaxHanded, nDispatched, lastEntry>>
            /\ UNCHANGED regVars
       ELSE /\ bufMaxWrite' = Max(bufMaxWrite, BuffLen)
            /\ nDispatched' = nDispatched + 1
            /\ tokMaxHanded' = Max(tokMaxHanded,
                                   EntryMaxOffset(TokenList, TokensHanded(NumTokens)))
            /\ lastEntry' = [called |-> TRUE, numTokens |-> TokensHanded(NumTokens),
                             tokens |-> [k \in 1 .. TokensHanded(NumTokens) |-> TokenList[k - 1]],
                             read |-> EntryReadsTokens(TokensHanded(NumTokens)),
                             tooLongBefore |-> nTooLong,
                             type |-> en.type,
                             status |-> EntryStatus(TokensHanded(NumTokens), en.type),
                             rejectedBefore |->
                                 IF lastEntry.status = "CFE_ES_ERR_APP_CREATE"
                                 THEN lastEntry.rejectedBefore + 1
                                 ELSE lastEntry.rejectedBefore]
            /\ ParseFileEntry(TokensHanded(NumTokens), en)
            /\ UNCHANGED <<LineTooLong, nTooLong>>
    /\ BuffLen' = 0
    /\ NumTokens' = 0
    /\ nReads' = nReads + 1
    /\ UNCHANGED <<saPc, TokenList, sentinel>>
    /\ UNCHANGED sw

(***************************************************************************)
(* CFE_ES_CleanupObjectCallback and CFE_ES_CleanupTaskResources:            *)
(* lines 1181-1356                                                          *)
(***************************************************************************)
ObjTypes == {"TASK", "QUEUE", "BINSEM", "COUNTSEM", "MUTEX", "TIMECB",
             "STREAM", "MODULE", "UNKNOWN"}

DeleteErrorTimerIgnored(ObjType) ==
    CASE ObjType = "TASK" -> "CFE_ES_ERR_CHILD_TASK_DELETE"
      [] ObjType = "QUEUE" -> "CFE_ES_QUEUE_DELETE_ERR"
      [] ObjType = "BINSEM" -> "CFE_ES_BIN_SEM_DELETE_ERR"
      [] ObjType = "COUNTSEM" -> "CFE_ES_COUNT_SEM_DELETE_ERR"
      [] ObjType = "MUTEX" -> "CFE_ES_MUT_SEM_DELETE_ERR"
      [] ObjType = "TIMECB" -> "CFE_SUCCESS"
      [] OTHER -> "CFE_ES_APP_CLEANUP_ERR"

(* Lines 1260-1284: the error that a failed delete of this kind records.    *)
DeleteError(ObjType) ==
    CASE ObjType = "TASK" -> "CFE_ES_ERR_CHILD_TASK_DELETE"
      [] ObjType = "QUEUE" -> "CFE_ES_QUEUE_DELETE_ERR"
      [] ObjType = "BINSEM" -> "CFE_ES_BIN_SEM_DELETE_ERR"
      [] ObjType = "COUNTSEM" -> "CFE_ES_COUNT_SEM_DELETE_ERR"
      [] ObjType = "MUTEX" -> "CFE_ES_MUT_SEM_DELETE_ERR"
      [] ObjType = "TIMECB" -> "CFE_ES_TIMER_DELETE_ERR"
      [] OTHER -> "CFE_ES_APP_CLEANUP_ERR"

(* Lines 1199-1288: one object reported by OS_ForEachObject; ok is the      *)
(* result of its deleter.                                                   *)
CleanupObjectCallback(cs, ObjType, ok) ==
    IF ObjType = "UNKNOWN" THEN cs
    ELSE [cs EXCEPT
            !.FoundObjects = Inc32(@),
            !.DeletedObjects = IF ok THEN Inc32(@) ELSE @,
            !.OverallStatus = IF ~ok /\ @ = "CFE_SUCCESS"
                              THEN DeleteError(ObjType) ELSE @]

(* Lines 1305-1306: memset and --PrevFoundObjects.                           *)
InitCleanState ==
    [ErrorFlag |-> 0, FoundObjects |-> 0, PrevFoundObjects |-> Dec32(0),
     DeletedObjects |-> 0, OverallStatus |-> "CFE_SUCCESS"]

(* Line 1310: the loop is left.                                              *)
LoopLeaves(cs) == cs.FoundObjects = 0 \/ cs.ErrorFlag # 0

NextErrorFlagLax(cs) ==
    IF cs.DeletedObjects = 0 \/ cs.FoundObjects > cs.PrevFoundObjects
    THEN 1 ELSE 0

(* Lines 1320-1321.                                                          *)
NextErrorFlag(cs) ==
    IF cs.DeletedObjects = 0 \/ cs.FoundObjects >= cs.PrevFoundObjects
    THEN 1 ELSE 0

(* Lines 1320-1324: the state carried into the next pass.                    *)
AfterPass(cs) ==
    [cs EXCEPT !.ErrorFlag = NextErrorFlag(cs),
               !.PrevFoundObjects = cs.FoundObjects,
               !.FoundObjects = 0,
               !.DeletedObjects = 0]

TaskResultObjectsFirst(cs, delOk) ==
    IF cs.OverallStatus # "CFE_SUCCESS" THEN cs.OverallStatus
    ELSE IF ~delOk THEN "CFE_ES_TASK_DELETE_ERR"
    ELSE IF cs.FoundObjects > 0 THEN "CFE_ES_APP_CLEANUP_ERR"
    ELSE "CFE_SUCCESS"

(* Lines 1330-1343: the result, given whether OS_TaskDelete succeeded.      *)
TaskResult(cs, delOk) ==
    IF delOk
    THEN IF cs.OverallStatus = "CFE_SUCCESS" /\ cs.FoundObjects > 0
         THEN "CFE_ES_APP_CLEANUP_ERR"
         ELSE cs.OverallStatus
    ELSE "CFE_ES_TASK_DELETE_ERR"

(* One pass of OS_ForEachObject over the objects it reports.                *)
RECURSIVE OnePass(_, _)
OnePass(cs, objs) ==
    IF objs = <<>> THEN cs
    ELSE OnePass(CleanupObjectCallback(cs, Head(objs).type, Head(objs).ok),
                 Tail(objs))

(* Lines 1307-1325: the passes, until the loop is left.  passes lists what  *)
(* the enumerator reports pass by pass; after them it reports nothing.      *)
RECURSIVE SweepLoop(_, _)
SweepLoop(cs, passes) ==
    LET objs == IF passes = <<>> THEN <<>> ELSE Head(passes)
        found == OnePass(cs, objs)
    IN IF LoopLeaves(found) THEN found
       ELSE SweepLoop(AfterPass(found),
                      IF passes = <<>> THEN <<>> ELSE Tail(passes))

(* Lines 1345-1351: the task record is invalidated when the identifier      *)
(* converts to an index.                                                    *)
TaskTableAfterCleanup(tt, TaskId) ==
    IF ValidTaskId(TaskId)
    THEN [tt EXCEPT ![ArrayIndex(TaskId)].RecordUsed = FALSE]
    ELSE tt

(* Lines 1348-1351 for a conversion that the OSAL may also refuse.          *)
TaskTableAfterConvert(tt, TaskId, convOk) ==
    IF convOk THEN TaskTableAfterCleanup(tt, TaskId) ELSE tt

RegisteredTasksAfterCleanupKept(n) == n

(* Line 1353.                                                                *)
RegisteredTasksAfterCleanup(n) == Dec32(n)

(* What the enumerator and the deleters do during a clean-up that is part   *)
(* of CFE_ES_CleanUpApp: nothing owned, one queue that is deleted, or one   *)
(* queue that cannot be deleted.                                            *)
SweepCases ==
    { <<>>,
      << <<[type |-> "QUEUE", ok |-> TRUE]>> >>,
      << <<[type |-> "QUEUE", ok |-> FALSE]>>, <<[type |-> "QUEUE", ok |-> FALSE]>> >> }

(* CFE_ES_CleanupTaskResources as one call: the result for what the        *)
(* enumerator reports and for the outcome of OS_TaskDelete.                 *)
SweepResult(passes, delOk) ==
    TaskResult(SweepLoop(InitCleanState, passes), delOk)

(***************************************************************************)
(* CFE_ES_RunAppTableScan, lines 778-879, run by the background thread      *)
(***************************************************************************)
(* The elapsed times the background task passes to the scan.                *)
ElapsedTimes == 1 .. MaxElapsed

(* The grace window of the specification, in milliseconds.                  *)
GraceWindow == APP_KILL_TIMEOUT * APP_SCAN_RATE

GraceRequests == {APP_EXIT, APP_ERROR, SYS_DELETE, SYS_RESTART, SYS_RELOAD}

(* Elapsed time accumulated by the observers of the grace window.           *)
Accumulate(acc, e, cap) ==
    [i \in AppIdx |-> IF acc[i] >= 0 THEN Min(acc[i] + e, cap) ELSE acc[i]]

ScanNotDueNoCommand(e) ==
    /\ scan.PendingAppStateChanges = 0
    /\ scan.BackgroundScanTimer > e

(* Lines 784-796: no scan is due.                                            *)
ScanNotDue(e) ==
    /\ scan.PendingAppStateChanges = 0
    /\ scan.LastScanCommandCount = CommandCounter
    /\ scan.BackgroundScanTimer > e

(* Lines 778-805: one call of the scan job with elapsed time e.             *)
Scan_Call(e) ==
    /\ pc["BG"] = "idle"
    /\ IF ScanNotDue(e)
       THEN /\ scan' = [scan EXCEPT !.BackgroundScanTimer = @ - e]
            /\ pc' = pc
            /\ hist' = [hist EXCEPT
                           !.graceAcc = Accumulate(@, e, GraceWindow),
                           !.visAcc = Accumulate(@, e, GraceWindow + 1),
                           !.healAge = [i \in AppIdx |-> IF @[i] = 0 THEN 1 ELSE @[i]]]
       ELSE /\ scan' = [scan EXCEPT !.BackgroundScanTimer = APP_SCAN_RATE,
                                    !.LastScanCommandCount = CommandCounter,
                                    !.PendingAppStateChanges = 0,
                                    !.ElapsedTime = e]
            /\ pc' = [pc EXCEPT !["BG"] = "scan_lock"]
            /\ hist' = [hist EXCEPT
                           !.graceAcc = Accumulate(@, e, GraceWindow),
                           !.scanAcc = Accumulate(@, e, GraceWindow),
                           !.visAcc = Accumulate(@, e, GraceWindow + 1),
                           !.healAge = [i \in AppIdx |-> IF @[i] = 0 THEN 1 ELSE @[i]]]
    /\ UNCHANGED <<appVars, libVars, lock, osal, ac, ll, pcr, cu, CommandCounter>>
    /\ UNCHANGED <<parseVars, sw>>

(* Line 813: take the lock and start at index 0.                            *)
Scan_Lock ==
    /\ pc["BG"] = "scan_lock"
    /\ lock = NoThread
    /\ lock' = "BG"
    /\ scan' = [scan EXCEPT !.i = 0]
    /\ pc' = [pc EXCEPT !["BG"] = "scan_visit"]
    /\ UNCHANGED <<appVars, libVars, osal, ac, ll, pcr, cu, CommandCounter, hist>>
    /\ UNCHANGED <<parseVars, sw>>

TimerRunningLax(timer, e) == timer >= e

TimerRunningNonzero(timer, e) == timer > 0

TimerRunningPositive(timer, e) == timer > e /\ e > 0

(* Line 839: the wait timer has not expired yet.                            *)
TimerRunning(timer, e) == timer > e

LockKeptForRequest == "BG"

StateAfterRequestKept == RUNNING

(* Line 861: the state of a RUNNING app whose control request was seen.     *)
StateAfterRequest == WAITING

(* Line 851: the lock while the control request is processed.               *)
LockForRequest == NoThread

ScannedAny(app) == TRUE

(* Line 825: the scan looks at external apps only.                          *)
Scanned(app) == app.Type = EXTERNAL

(* Lines 823-866: examine the app at the current index.                     *)
Scan_Visit ==
    /\ pc["BG"] = "scan_visit"
    /\ scan.i < MaxApps
    /\ LET i == scan.i
           app == AppTable[i]
           e == scan.ElapsedTime
       IN IF Scanned(app) /\ app.AppState > RUNNING
          THEN IF TimerRunning(app.AppTimerMsec, e)
               THEN /\ AppTable' = [AppTable EXCEPT ![i].AppTimerMsec = @ - e]
                    /\ scan' = [scan EXCEPT !.PendingAppStateChanges = Inc32(@),
                                            !.i = i + 1]
                    /\ UNCHANGED <<lock, pc, pcr, hist>>
               ELSE /\ AppTable' = [AppTable EXCEPT ![i].AppTimerMsec = 0]
                    /\ scan' = [scan EXCEPT !.PendingAppStateChanges = Inc32(@)]
                    /\ lock' = LockForRequest
                    /\ pcr' = [InitPcr EXCEPT !.AppID = i]
                    /\ pc' = [pc EXCEPT !["BG"] = "pcr_start"]
                    /\ hist' = [hist EXCEPT
                                   !.pcrCount[i] = Min(@ + 1, 3),
                                   !.visAcc[i] = -1,
                                   !.healAge[i] = IF @ = 1 THEN 2 ELSE @]
          ELSE IF /\ Scanned(app)
                  /\ app.AppState = RUNNING
                  /\ app.AppControlRequest > APP_RUN
          THEN /\ AppTable' = [AppTable EXCEPT ![i].AppState = StateAfterRequest,
                                               ![i].AppTimerMsec = GraceTimerStart]
               /\ scan' = [scan EXCEPT !.i = i + 1]
               /\ hist' = [hist EXCEPT !.graceAcc[i] = 0, !.scanAcc[i] = 0,
                                       !.waitCount[i] = Min(@ + 1, 2),
                                       !.obsReq[i] = app.AppControlRequest]
               /\ UNCHANGED <<lock, pc, pcr>>
          ELSE /\ scan' = [scan EXCEPT !.i = i + 1]
               /\ UNCHANGED <<AppTable, lock, pc, pcr, hist>>
    /\ UNCHANGED <<TaskTable, RegisteredTasks, RegisteredExternalApps, libVars,
                   osal, ac, ll, cu, CommandCounter>>
    /\ UNCHANGED <<parseVars, sw>>

(* Line 853: the lock is taken again before the next index.                 *)
Scan_Relock ==
    /\ pc["BG"] = "scan_relock"
    /\ lock = NoThread
    /\ lock' = "BG"
    /\ scan' = [scan EXCEPT !.i = @ + 1]
    /\ pcr' = InitPcr
    /\ cu' = InitCu
    /\ pc' = [pc EXCEPT !["BG"] = "scan_visit"]
    /\ UNCHANGED <<appVars, libVars, osal, ac, ll, CommandCounter, hist>>
    /\ UNCHANGED <<parseVars, sw>>

(* Lines 868-877: the loop is over; release the lock and return.            *)
Scan_End ==
    /\ pc["BG"] = "scan_visit"
    /\ scan.i = MaxApps
    /\ lock' = NoThread
    /\ scan' = [scan EXCEPT !.ElapsedTime = 0, !.i = 0]
    /\ pc' = [pc EXCEPT !["BG"] = "idle"]
    /\ UNCHANGED <<appVars, libVars, osal, ac, ll, pcr, cu, CommandCounter, hist>>
    /\ UNCHANGED <<parseVars, sw>>

(***************************************************************************)
(* CFE_ES_ProcessControlRequest, lines 889-1064                             *)
(***************************************************************************)
(* Lines 899-904: copy the start parameters and read the request, both      *)
(* without the lock.                                                        *)
PCR_Start ==
    /\ pc["BG"] = "pcr_start"
    /\ pcr' = [pcr EXCEPT !.AppStartParams = AppTable[pcr.AppID].StartParams,
                          !.Request = AppTable[pcr.AppID].AppControlRequest]
    /\ pc' = [pc EXCEPT !["BG"] = "pcr_switch"]
    /\ UNCHANGED <<appVars, libVars, lock, osal, ac, ll, scan, cu, CommandCounter, hist>>
    /\ UNCHANGED <<parseVars, sw>>

RequestKeptAfterException(req) == req

(* Line 1044: the request that replaces SYS_EXCEPTION.                      *)
RequestAfterException(req) == SYS_DELETE

RequestKeptAfterUnknown(req) == req

(* Line 1059: the request that replaces a value the switch does not know.   *)
RequestAfterUnknown(req) == SYS_DELETE

(* Lines 904-1062: the switch on the request.                               *)
PCR_Switch ==
    /\ pc["BG"] = "pcr_switch"
    /\ LET i == pcr.AppID
       IN IF pcr.Request \in GraceRequests
          THEN /\ cu' = [InitCu EXCEPT !.AppId = i]
               /\ pc' = [pc EXCEPT !["BG"] = "cu_hooks"]
               /\ UNCHANGED <<AppTable, pcr, hist>>
          ELSE IF pcr.Request = SYS_EXCEPTION
          THEN /\ AppTable' = [AppTable EXCEPT
                                  ![i].AppControlRequest = RequestAfterException(@)]
               /\ pcr' = [pcr EXCEPT !.Event = "CFE_ES_PCR_ERR1_EID"]
               /\ hist' = [hist EXCEPT !.excEvents[i] = Min(@ + 1, 3),
                                       !.healAge[i] = 0]
               /\ pc' = [pc EXCEPT !["BG"] = "scan_relock"]
               /\ UNCHANGED cu
          ELSE /\ AppTable' = [AppTable EXCEPT
                                  ![i].AppControlRequest = RequestAfterUnknown(@)]
               /\ pcr' = [pcr EXCEPT !.Event = "CFE_ES_PCR_ERR2_EID"]
               /\ pc' = [pc EXCEPT !["BG"] = "scan_relock"]
               /\ UNCHANGED <<cu, hist>>
    /\ UNCHANGED <<TaskTable, RegisteredTasks, RegisteredExternalApps, libVars,
                   lock, osal, ac, ll, scan, CommandCounter>>
    /\ UNCHANGED <<parseVars, sw>>

(* The events of the kill requests, lines 911-955.                          *)
KillEvent(req, ok) ==
    CASE req = APP_EXIT -> IF ok THEN "CFE_ES_EXIT_APP_INF_EID" ELSE "CFE_ES_EXIT_APP_ERR_EID"
      [] req = APP_ERROR -> IF ok THEN "CFE_ES_ERREXIT_APP_INF_EID" ELSE "CFE_ES_ERREXIT_APP_ERR_EID"
      [] req = SYS_DELETE -> IF ok THEN "CFE_ES_STOP_INF_EID" ELSE "CFE_ES_STOP_ERR3_EID"
      [] req = SYS_RESTART -> "CFE_ES_RESTART_APP_ERR4_EID"
      [] OTHER -> "CFE_ES_RELOAD_APP_ERR4_EID"

RestartParamsFromTable == AppTable[pcr.AppID].StartParams

(* Lines 972-977 and 1008-1013: the restart and the reload pass the copy    *)
(* of the start parameters made at line 899.                                *)
RestartParams == pcr.AppStartParams

(* Lines 911-1030: CFE_ES_CleanUpApp has returned.                          *)
PCR_Cleaned ==
    /\ pc["BG"] = "pcr_cleaned"
    /\ IF pcr.Request \in {SYS_RESTART, SYS_RELOAD} /\ pcr.Status = "CFE_SUCCESS"
       THEN /\ ac' = [ac EXCEPT !["BG"] =
                        [NoFrame EXCEPT !.p =
                            [Name |-> RestartParams.Name,
                             EntryPoint |-> RestartParams.EntryPoint,
                             FileName |-> RestartParams.FileName,
                             StackSize |-> RestartParams.StackSize,
                             Priority |-> RestartParams.Priority,
                             ExceptionAction |-> RestartParams.ExceptionAction]]]
            /\ pc' = [pc EXCEPT !["BG"] = "ac_claim"]
            /\ hist' = [hist EXCEPT !.acRet["BG"] = NoReturn,
                                    !.healAge[pcr.AppID] = IF @ = 3 THEN -1 ELSE @,
                                    !.cuObs = NoCleanObs]
            /\ pcr' = pcr
       ELSE /\ pcr' = [pcr EXCEPT !.Event = KillEvent(pcr.Request, pcr.Status = "CFE_SUCCESS")]
            /\ pc' = [pc EXCEPT !["BG"] = "scan_relock"]
            /\ hist' = [hist EXCEPT !.healAge[pcr.AppID] = IF @ = 3 THEN -1 ELSE @,
                                    !.cuObs = NoCleanObs]
            /\ UNCHANGED ac
    /\ UNCHANGED <<appVars, libVars, lock, osal, ll, scan, cu, CommandCounter>>
    /\ UNCHANGED <<parseVars, sw>>

(* Lines 973-982 and 1008-1017: the event after the restart's AppCreate.    *)
RestartEvent(req, ok) ==
    IF req = SYS_RESTART
    THEN IF ok THEN "CFE_ES_RESTART_APP_INF_EID" ELSE "CFE_ES_RESTART_APP_ERR3_EID"
    ELSE IF ok THEN "CFE_ES_RELOAD_APP_INF_EID" ELSE "CFE_ES_RELOAD_APP_ERR3_EID"

PCR_Created ==
    /\ pc["BG"] = "pcr_created"
    /\ pcr' = [pcr EXCEPT !.Event = RestartEvent(pcr.Request,
                                       hist.acRet["BG"].code = "CFE_SUCCESS")]
    /\ pc' = [pc EXCEPT !["BG"] = "scan_relock"]
    /\ hist' = [hist EXCEPT !.torn = ZeroStartParams]
    /\ UNCHANGED <<appVars, libVars, lock, osal, ac, ll, scan, cu, CommandCounter>>
    /\ UNCHANGED <<parseVars, sw>>

(***************************************************************************)
(* CFE_ES_CleanUpApp, lines 1073-1173                                       *)
(***************************************************************************)
(* One step of the teardown: a hook, the clean-up of a task, the unload of  *)
(* a module or the release of a slot.                                       *)
Did(op, id) == [op |-> op, id |-> id]

(* Lines 1083-1099: the hooks in the order of their calls.                  *)
HookOrder == <<Did("TBL", -1), Did("SB", -1), Did("TIME", -1), Did("EVS", -1)>>

(* Lines 1083-1104: the table, software-bus, time and event hooks.          *)
CU_Hooks(evsOk) ==
    /\ pc["BG"] = "cu_hooks"
    /\ cu' = [cu EXCEPT !.ReturnCode = IF evsOk THEN @ ELSE "CFE_ES_APP_CLEANUP_ERR"]
    /\ pc' = [pc EXCEPT !["BG"] = "cu_lock"]
    /\ hist' = [hist EXCEPT !.cuObs = [NoCleanObs EXCEPT !.steps = 1,
                                                          !.failed = ~evsOk,
                                                          !.trace = HookOrder]]
    /\ UNCHANGED <<appVars, libVars, lock, osal, ac, ll, scan, pcr, CommandCounter>>
    /\ UNCHANGED <<parseVars, sw>>

(* Lines 1109-1114: take the lock and read the main task identifier.        *)
CU_Lock ==
    /\ pc["BG"] = "cu_lock"
    /\ lock = NoThread
    /\ lock' = "BG"
    /\ cu' = [cu EXCEPT !.MainTaskId = AppTable[cu.AppId].MainTaskId, !.i = 0]
    /\ pc' = [pc EXCEPT !["BG"] = "cu_child"]
    /\ LET kids == {k \in TaskIdx : /\ TaskTable[k].RecordUsed
                                     /\ TaskTable[k].AppId = cu.AppId
                                     /\ TaskTable[k].TaskId # AppTable[cu.AppId].MainTaskId}
       IN hist' = [hist EXCEPT !.cuObs.apps0 = RegisteredExternalApps,
                               !.cuObs.tasks0 = RegisteredTasks,
                               !.cuObs.children = Cardinality(kids),
                               !.cuObs.kids = {TaskTable[k].TaskId : k \in kids}]
    /\ UNCHANGED <<appVars, libVars, osal, ac, ll, scan, pcr, CommandCounter>>
    /\ UNCHANGED <<parseVars, sw>>

ChildRecordsWithMain ==
    {k \in TaskIdx : /\ k >= cu.i
                     /\ TaskTable[k].RecordUsed
                     /\ TaskTable[k].AppId = cu.AppId}

(* Lines 1122-1124: the child-task records of the app from index cu.i on.   *)
ChildRecords ==
    {k \in TaskIdx : /\ k >= cu.i
                     /\ TaskTable[k].RecordUsed
                     /\ TaskTable[k].AppId = cu.AppId
                     /\ TaskTable[k].TaskId # cu.MainTaskId}

(* What CFE_ES_CleanupTaskResources(TaskId) leaves in the OSAL.             *)
OsalAfterTaskDelete(TaskId, deleted) ==
    IF deleted THEN [osal EXCEPT !.tasks = @ \ {TaskId}]
    ELSE [osal EXCEPT !.failed = TRUE]

(* Lines 1119-1135: clean up the next child task.                           *)
CU_Child(passes, delOk, convOk) ==
    /\ pc["BG"] = "cu_child"
    /\ ChildRecords # {}
    /\ LET k == LowestOf(ChildRecords)
           tid == TaskTable[k].TaskId
           deleted == delOk /\ tid \in osal.tasks
       IN /\ TaskTable' = TaskTableAfterConvert(TaskTable, tid, convOk)
          /\ RegisteredTasks' = RegisteredTasksAfterCleanup(RegisteredTasks)
          /\ osal' = OsalAfterTaskDelete(tid, deleted)
          /\ cu' = [cu EXCEPT !.i = k + 1,
                       !.ReturnCode = IF SweepResult(passes, deleted) # "CFE_SUCCESS"
                                      THEN "CFE_ES_APP_CLEANUP_ERR" ELSE @]
          /\ hist' = [hist EXCEPT !.cuObs.failed =
                         @ \/ SweepResult(passes, deleted) # "CFE_SUCCESS",
                         !.cuObs.trace = Append(@, Did("child", tid))]
    /\ UNCHANGED <<AppTable, RegisteredExternalApps, libVars, lock, pc, ac, ll,
                   scan, pcr, CommandCounter>>
    /\ UNCHANGED <<parseVars, sw>>

(* Lines 1140-1146: clean up the main task.                                 *)
CU_Main(passes, delOk, convOk) ==
    /\ pc["BG"] = "cu_child"
    /\ ChildRecords = {}
    /\ LET tid == cu.MainTaskId
           deleted == delOk /\ tid \in osal.tasks
       IN /\ TaskTable' = TaskTableAfterConvert(TaskTable, tid, convOk)
          /\ RegisteredTasks' = RegisteredTasksAfterCleanup(RegisteredTasks)
          /\ osal' = OsalAfterTaskDelete(tid, deleted)
          /\ cu' = [cu EXCEPT !.i = MaxTasks,
                       !.ReturnCode = IF SweepResult(passes, deleted) # "CFE_SUCCESS"
                                      THEN "CFE_ES_APP_CLEANUP_ERR" ELSE @]
          /\ hist' = [hist EXCEPT !.cuObs.steps = @ + 1,
                         !.cuObs.failed =
                             @ \/ SweepResult(passes, deleted) # "CFE_SUCCESS",
                         !.cuObs.trace = Append(@, Did("main", tid))]
    /\ pc' = [pc EXCEPT !["BG"] = "cu_unload"]
    /\ UNCHANGED <<AppTable, RegisteredExternalApps, libVars, lock, ac, ll,
                   scan, pcr, CommandCounter>>
    /\ UNCHANGED <<parseVars, sw>>

(* The results of OS_ModuleUnload.                                          *)
UnloadResults == {"OS_SUCCESS", "OS_ERROR", "OS_ERR_INVALID_ID"}

ExternalAppsAfterCleanUpKept(n) == n

(* Line 1165.                                                                *)
ExternalAppsAfterCleanUp(n) == Dec32(n)

(* Lines 1152-1171: unload the module, release the slot and the lock.       *)
CU_Unload(res) ==
    /\ pc["BG"] = "cu_unload"
    /\ LET i == cu.AppId
           m == AppTable[i].StartParams.ModuleId
           ext == AppTable[i].Type = EXTERNAL
           status == IF m \in osal.modules /\ res = "OS_SUCCESS" THEN "OS_SUCCESS"
                     ELSE IF res = "OS_SUCCESS" THEN "OS_ERR_INVALID_ID" ELSE res
           rc == IF ext /\ status = "OS_ERROR" THEN "CFE_ES_APP_CLEANUP_ERR"
                 ELSE cu.ReturnCode
       IN /\ osal' = IF ~ext THEN osal
                     ELSE IF status = "OS_SUCCESS"
                     THEN [osal EXCEPT !.modules = @ \ {m}]
                     ELSE [osal EXCEPT !.failed = TRUE]
          /\ RegisteredExternalApps' = IF ext
                                       THEN ExternalAppsAfterCleanUp(RegisteredExternalApps)
                                       ELSE RegisteredExternalApps
          /\ AppTable' = [AppTable EXCEPT ![i].AppState = UNDEFINED]
          /\ cu' = [cu EXCEPT !.ReturnCode = rc]
          /\ pcr' = [pcr EXCEPT !.Status = rc]
          /\ hist' = [Forget(i) EXCEPT
                         !.healAge[i] = IF hist.healAge[i] = 2 THEN 3 ELSE -1,
                         !.cuObs =
                            [@ EXCEPT
                               !.apps0 = 0, !.tasks0 = 0, !.kids = {},
                               !.steps = @ + 1,
                               !.failed = @ \/ (ext /\ status # "OS_SUCCESS"),
                               !.done = TRUE,
                               !.ext = ext,
                               !.dApps = (hist.cuObs.apps0 - RegisteredExternalApps')
                                            % UintModulus,
                               !.dTasks = (hist.cuObs.tasks0 - RegisteredTasks)
                                             % UintModulus,
                               !.state = AppTable'[i].AppState,
                               !.mainLive = cu.MainTaskId \in osal.tasks,
                               !.kidsLive = hist.cuObs.kids \cap osal.tasks # {},
                               !.modLive = m \in osal'.modules,
                               !.staleRecords =
                                  \E k \in TaskIdx : /\ TaskTable[k].RecordUsed
                                                     /\ TaskTable[k].AppId = i,
                               !.rc = rc,
                               !.trace = (IF ext THEN Append(@, Did("unload", m)) ELSE @)
                                            \o <<Did("undefined", i)>>],
                         !.torn = IF pcr.Request \in {SYS_RESTART, SYS_RELOAD}
                                     /\ rc = "CFE_SUCCESS"
                                  THEN AppTable[i].StartParams ELSE ZeroStartParams]
    /\ lock' = NoThread
    /\ pc' = [pc EXCEPT !["BG"] = "pcr_cleaned"]
    /\ UNCHANGED <<TaskTable, RegisteredTasks, libVars, ac, ll, scan, CommandCounter>>
    /\ UNCHANGED <<parseVars, sw>>

(***************************************************************************)
(* The callers of the registry that are not part of cfe_es_apps.c           *)
(***************************************************************************)
(* The started app reaches its run loop: its state becomes RUNNING.         *)
App_Running(i) ==
    /\ lock = NoThread
    /\ AppTable[i].Type = EXTERNAL
    /\ AppTable[i].AppState = EARLY_INIT
    /\ AppTable[i].MainTaskId \in osal.tasks
    /\ AppTable' = [AppTable EXCEPT ![i].AppState = RUNNING]
    /\ hist' = [hist EXCEPT !.visAcc[i] =
                   IF AppTable[i].AppControlRequest \in GraceRequests THEN 0 ELSE -1]
    /\ UNCHANGED <<TaskTable, RegisteredTasks, RegisteredExternalApps, libVars,
                   lock, osal, pc, ac, ll, scanVars>>
    /\ UNCHANGED <<parseVars, sw>>

(***************************************************************************)
(* CFE_ES_GetAppInfoInternal, lines 1365-1455, run by thread t              *)
(***************************************************************************)
(* Line 1374: take the lock; the copies that follow change no table.        *)
GI_Lock(t) ==
    /\ t # "BG"
    /\ pc[t] = "idle"
    /\ lock = NoThread
    /\ lock' = t
    /\ pc' = [pc EXCEPT ![t] = "gi_copy"]
    /\ UNCHANGED <<appVars, libVars, osal, ac, ll, scanVars, hist>>
    /\ UNCHANGED <<parseVars, sw>>

LockKeptAfterInfo(t) == t

(* Line 1453: the lock at the return.                                       *)
LockAfterInfo(t) == NoThread

(* Lines 1376-1455: copy the record, release the lock and return.           *)
GI_Unlock(t) ==
    /\ pc[t] = "gi_copy"
    /\ lock' = LockAfterInfo(t)
    /\ pc' = [pc EXCEPT ![t] = "idle"]
    /\ UNCHANGED <<appVars, libVars, osal, ac, ll, scanVars, hist>>
    /\ UNCHANGED <<parseVars, sw>>

(* The control requests that commands and apps write.                       *)
RequestInputs == APP_RUN .. UNKNOWN_REQUEST

(* A command handler or the app itself writes the control request.          *)
SetControlRequest(i, r) ==
    /\ lock = NoThread
    /\ hist.requests < MaxRequests
    /\ AppTable[i].Type = EXTERNAL
    /\ AppTable[i].AppState # UNDEFINED
    /\ AppTable' = [AppTable EXCEPT ![i].AppControlRequest = r]
    /\ hist' = [hist EXCEPT
                   !.requests = @ + 1,
                   !.excWrites[i] = IF r = SYS_EXCEPTION THEN @ + 1 ELSE @,
                   !.healAge[i] = -1,
                   !.overwritten[i] = @ \/ hist.obsReq[i] # 0,
                   !.visAcc[i] = IF AppTable[i].AppState # RUNNING THEN @
                                 ELSE IF r \notin GraceRequests THEN -1
                                 ELSE IF @ = -1 THEN 0 ELSE @]
    /\ UNCHANGED <<TaskTable, RegisteredTasks, RegisteredExternalApps, libVars,
                   lock, osal, pc, ac, ll, scanVars>>
    /\ UNCHANGED <<parseVars, sw>>

(* The command pipe processes a command.                                    *)
Command ==
    /\ CommandCounter < MaxCommands
    /\ CommandCounter' = CommandCounter + 1
    /\ UNCHANGED <<appVars, libVars, lock, osal, pc, ac, ll, scan, pcr, cu, hist>>
    /\ UNCHANGED <<parseVars, sw>>

(* A running app creates a child task.                                      *)
CreateChildTask(i) ==
    /\ lock = NoThread
    /\ AppTable[i].Type = EXTERNAL
    /\ AppTable[i].AppState = RUNNING
    /\ FreeTasks # {}
    /\ LET tid == LowestOf(FreeTasks)
       IN /\ osal' = [osal EXCEPT !.tasks = @ \cup {tid}, !.taskFor[tid] = i]
          /\ TaskTable' = [TaskTable EXCEPT ![ArrayIndex(tid)] =
                              [RecordUsed |-> TRUE, AppId |-> i, TaskId |-> tid,
                               TaskName |-> <<>>]]
          /\ RegisteredTasks' = Inc32(RegisteredTasks)
    /\ UNCHANGED <<AppTable, RegisteredExternalApps, libVars, lock, pc, ac, ll,
                   scanVars, hist>>
    /\ UNCHANGED <<parseVars, sw>>

(***************************************************************************)
(* CFE_ES_CleanupTaskResources step by step, lines 1297-1356                *)
(***************************************************************************)
(* The CleanState of the running call.                                      *)
CleanState ==
    [ErrorFlag |-> sw.ErrorFlag, FoundObjects |-> sw.FoundObjects,
     PrevFoundObjects |-> sw.PrevFoundObjects, DeletedObjects |-> sw.DeletedObjects,
     OverallStatus |-> sw.OverallStatus]

WithCleanState(cs) ==
    [sw EXCEPT !.ErrorFlag = cs.ErrorFlag, !.FoundObjects = cs.FoundObjects,
               !.PrevFoundObjects = cs.PrevFoundObjects,
               !.DeletedObjects = cs.DeletedObjects,
               !.OverallStatus = cs.OverallStatus]

(* Lines 1297-1306: the call, for a task identifier that may be invalid.    *)
SW_Call(TaskId) ==
    /\ sw.pc = "off"
    /\ sw' = [pc |-> "pass", TaskId |-> TaskId, ErrorFlag |-> InitCleanState.ErrorFlag,
              FoundObjects |-> InitCleanState.FoundObjects,
              PrevFoundObjects |-> InitCleanState.PrevFoundObjects,
              DeletedObjects |-> InitCleanState.DeletedObjects,
              OverallStatus |-> InitCleanState.OverallStatus,
              Result |-> "none", seen |-> 0, worst |-> 0]
    /\ UNCHANGED <<parseVars, regVars>>

(* The place of an object kind in the priority list of the error kinds:     *)
(* child task, queue, binary semaphore, counting semaphore, mutex, timer,   *)
(* and then every other kind.                                               *)
Rank(ObjType) ==
    CASE ObjType = "TASK" -> 1
      [] ObjType = "QUEUE" -> 2
      [] ObjType = "BINSEM" -> 3
      [] ObjType = "COUNTSEM" -> 4
      [] ObjType = "MUTEX" -> 5
      [] ObjType = "TIMECB" -> 6
      [] OTHER -> 7

(* Line 1309: OS_ForEachObject reports one more object to the callback.     *)
SW_Object(ObjType, ok) ==
    /\ sw.pc = "pass"
    /\ sw.seen < MaxObjects
    /\ sw' = [WithCleanState(CleanupObjectCallback(CleanState, ObjType, ok))
                 EXCEPT !.seen = sw.seen + 1,
                        !.worst = IF ok \/ ObjType = "UNKNOWN" THEN @
                                  ELSE IF @ = 0 THEN Rank(ObjType)
                                  ELSE Min(@, Rank(ObjType))]
    /\ UNCHANGED <<parseVars, regVars>>

(* Lines 1310-1324: OS_ForEachObject has returned.                          *)
SW_PassEnd ==
    /\ sw.pc = "pass"
    /\ sw' = IF LoopLeaves(CleanState)
             THEN [sw EXCEPT !.pc = "delete", !.seen = 0]
             ELSE [WithCleanState(AfterPass(CleanState)) EXCEPT !.seen = 0]
    /\ UNCHANGED <<parseVars, regVars>>

(* Lines 1330-1355: delete the task, invalidate its record, return.         *)
SW_TaskDelete(ok, convOk) ==
    /\ sw.pc = "delete"
    /\ LET deleted == ok /\ sw.TaskId \in osal.tasks
       IN /\ sw' = [sw EXCEPT !.pc = "done", !.Result = TaskResult(CleanState, deleted)]
          /\ osal' = OsalAfterTaskDelete(sw.TaskId, deleted)
    /\ TaskTable' = TaskTableAfterConvert(TaskTable, sw.TaskId, convOk)
    /\ RegisteredTasks' = RegisteredTasksAfterCleanup(RegisteredTasks)
    /\ UNCHANGED <<parseVars, AppTable, RegisteredExternalApps, libVars, lock, pc,
                   ac, ll, scanVars, hist>>

(* CFE_ES_CleanUpApp holds the lock and is about to clean up the tasks of   *)
(* the app in slot 0.                                                       *)
InitSweep ==
    /\ InitParse
    /\ sw = InitSw
    /\ AppTable = [i \in AppIdx |->
                     IF i = 0
                     THEN [PopulatedRecord([ZeroAppRecord EXCEPT !.AppState = WAITING],
                                           [NoFrame EXCEPT !.ModuleId = 1, !.StartAddr = 1])
                             EXCEPT !.MainTaskId = 1, !.AppControlRequest = SYS_DELETE]
                     ELSE ZeroAppRecord]
    /\ TaskTable = [k \in TaskIdx |->
                      [RecordUsed |-> TRUE, AppId |-> 0, TaskId |-> k + 1,
                       TaskName |-> <<>>]]
    /\ LibTable = [k \in LibIdx |-> ZeroLibRecord]
    /\ RegisteredTasks = MaxTasks
    /\ RegisteredExternalApps = 1
    /\ RegisteredLibs = 0
    /\ lock = "BG"
    /\ CommandCounter = 0
    /\ osal = [modules |-> {1}, tasks |-> TaskIds,
               modFor |-> [m \in ModuleIds |-> IF m = 1 THEN 0 ELSE -1],
               taskFor |-> [k \in TaskIds |-> 0],
               failed |-> FALSE]
    /\ pc = [t \in Threads |-> IF t = "BG" THEN "cu_child" ELSE "idle"]
    /\ ac = [t \in Threads |-> NoFrame]
    /\ ll = [t \in Threads |-> NoLibFrame]
    /\ scan = [InitScan EXCEPT !.PendingAppStateChanges = 1, !.ElapsedTime = 1]
    /\ pcr = [InitPcr EXCEPT !.Request = SYS_DELETE]
    /\ cu = [InitCu EXCEPT !.MainTaskId = 1]
    /\ hist = InitHist

NextSweep ==
    \/ \E id \in TaskIds \cup {0} : SW_Call(id)
    \/ \E ty \in ObjTypes, ok \in BOOLEAN : SW_Object(ty, ok)
    \/ SW_PassEnd
    \/ \E ok \in BOOLEAN, convOk \in BOOLEAN : SW_TaskDelete(ok, convOk)

(* One call of CFE_ES_CleanupTaskResources that keeps running.              *)
SpecSweep == InitSweep /\ [][NextSweep]_vars /\ WF_vars(NextSweep)

(***************************************************************************)
(* Specifications                                                           *)
(***************************************************************************)
NextParse ==
    \/ \E r \in BOOLEAN, v \in BOOLEAN, n \in BOOLEAN : SA_Open(r, v, n)
    \/ \E n \in {1, Rest, Chunk} : SA_ReadData(n)
    \/ SA_ReadSpace
    \/ SA_ReadComma
    \/ \E en \in OtherEntries : SA_ReadSemicolon(en)
    \/ \E bang \in BOOLEAN : SA_ReadEnd(bang)

Init == InitParse /\ InitReg /\ sw = InitSw

(* The startup-script parser reading any byte sequence.                     *)
SpecParse == Init /\ [][NextParse]_vars

(* The startup script as the startup context runs it: records of any       *)
(* number of tokens and of any entry type, each handed to                   *)
(* CFE_ES_ParseFileEntry, which creates the app or loads the library        *)
(* before the next byte is read; the OSAL calls may fail.                   *)
NextEntry ==
    \/ \E r \in BOOLEAN, v \in BOOLEAN, n \in BOOLEAN : SA_Open(r, v, n)
    \/ SA_ReadData(1)
    \/ SA_ReadComma
    \/ \E en \in EntryInputs : SA_ReadSemicolon(en)
    \/ \E bang \in BOOLEAN : SA_ReadEnd(bang)
    \/ AC_Claim("SU")
    \/ \E ok \in BOOLEAN : AC_ModuleLoad("SU", ok)
    \/ AC_LoadFailed("SU")
    \/ \E ok \in BOOLEAN : AC_SymbolLookup("SU", ok)
    \/ AC_SymbolFailed("SU")
    \/ \E ok \in BOOLEAN : AC_Unload("SU", ok)
    \/ AC_Populate("SU")
    \/ \E ok \in BOOLEAN : AC_TaskCreate("SU", ok)
    \/ LoadLibrary("SU")

SpecEntry == Init /\ [][NextEntry]_vars

(* The requests of the delete and restart commands.                         *)
CommandRequests == {SYS_DELETE, SYS_RESTART}

(* The life cycle of the apps: the background scan at its regular period,   *)
(* a commanding task that starts, deletes and restarts apps, apps that      *)
(* create child tasks, and an OSAL and peer subsystems that may fail.       *)
Next ==
    \/ Scan_Call(APP_SCAN_RATE)
    \/ Scan_Lock
    \/ Scan_Visit
    \/ Scan_Relock
    \/ Scan_End
    \/ PCR_Start
    \/ PCR_Switch
    \/ PCR_Cleaned
    \/ PCR_Created
    \/ \E ok \in BOOLEAN : CU_Hooks(ok)
    \/ CU_Lock
    \/ \E c \in SweepCases, ok \in BOOLEAN, conv \in BOOLEAN : CU_Child(c, ok, conv)
    \/ \E c \in SweepCases, ok \in BOOLEAN, conv \in BOOLEAN : CU_Main(c, ok, conv)
    \/ \E res \in UnloadResults : CU_Unload(res)
    \/ \E p \in ParamSet : AC_Call("CMD", p)
    \/ AC_CallNull("CMD")
    \/ \E t \in {"BG", "CMD"} : AppCreate(t)
    \/ \E i \in AppIdx : App_Running(i)
    \/ \E i \in AppIdx, r \in CommandRequests : SetControlRequest(i, r)
    \/ \E i \in AppIdx : CreateChildTask(i)

Spec == Init /\ [][Next]_vars

(* CFE_ES_AppCreate when the OSAL calls succeed.                            *)
AppCreateOk(t) ==
    \/ AC_Claim(t)
    \/ AC_ModuleLoad(t, TRUE)
    \/ AC_SymbolLookup(t, TRUE)
    \/ AC_Populate(t)
    \/ AC_TaskCreate(t, TRUE)

(* CFE_ES_AppCreate called with a file name; the OSAL calls may fail.       *)
AppCreateFile(t) ==
    \/ AC_Claim(t)
    \/ \E ok \in BOOLEAN : AC_ModuleLoad(t, ok)
    \/ AC_LoadFailed(t)
    \/ \E ok \in BOOLEAN : AC_SymbolLookup(t, ok)
    \/ AC_SymbolFailed(t)
    \/ \E ok \in BOOLEAN : AC_Unload(t, ok)
    \/ AC_Populate(t)
    \/ \E ok \in BOOLEAN : AC_TaskCreate(t, ok)

(* The requests written while an app is torn down: a delete, a restart,    *)
(* the exception request, a value that is no request, and APP_RUN.          *)
TeardownRequests == {APP_RUN, SYS_DELETE, SYS_RESTART, SYS_EXCEPTION,
                     UNKNOWN_REQUEST}

(* The steps of the background task from the scan to the end of a           *)
(* clean-up and of the restart that may follow it.                          *)
BackgroundSteps ==
    \/ Scan_Lock
    \/ Scan_Visit
    \/ Scan_Relock
    \/ Scan_End
    \/ PCR_Start
    \/ PCR_Switch
    \/ PCR_Cleaned
    \/ PCR_Created
    \/ \E ok \in BOOLEAN : CU_Hooks(ok)
    \/ CU_Lock
    \/ \E ok \in BOOLEAN : CU_Main(<<>>, ok, TRUE)
    \/ \E res \in UnloadResults : CU_Unload(res)
    \/ AppCreateFile("BG")

(* A scan tick that reports elapsed time: the period of the scan.           *)
PositiveTick == Scan_Call(APP_SCAN_RATE)

NextLive ==
    \/ Scan_Call(0)
    \/ PositiveTick
    \/ BackgroundSteps
    \/ \E p \in {q \in ParamSet : q.StackSize = 1} : AC_Call("CMD", p)
    \/ AppCreateFile("CMD")
    \/ \E i \in AppIdx : App_Running(i)
    \/ \E i \in AppIdx, r \in TeardownRequests : SetControlRequest(i, r)

(* The scan job is called again and again, with a positive elapsed time     *)
(* infinitely often, and every task that can take a step takes one.         *)
SpecLive ==
    /\ Init
    /\ [][NextLive]_vars
    /\ SF_vars(PositiveTick)
    /\ WF_vars(BackgroundSteps)
    /\ WF_vars(AppCreateFile("CMD"))

(* Every function that takes the shared-data lock, run by three tasks:     *)
(* the scan with its clean-ups and restarts, a commanding task that         *)
(* creates apps, and a task that loads libraries and reads app records;     *)
(* every OSAL call may fail.                                                *)
NextLock ==
    \/ Scan_Call(APP_SCAN_RATE)
    \/ BackgroundSteps
    \/ \E p \in {q \in ParamSet : q.StackSize = 1} : AC_Call("CMD", p)
    \/ AC_CallNull("CMD")
    \/ AppCreate("CMD")
    \/ \E name \in LibNames, file \in BOOLEAN : LL_Call("SU", name, file, "sym")
    \/ LoadLibrary("SU")
    \/ GI_Lock("SU")
    \/ GI_Unlock("SU")
    \/ \E i \in AppIdx : App_Running(i)
    \/ \E i \in AppIdx, r \in CommandRequests : SetControlRequest(i, r)

SpecLock == Init /\ [][NextLock]_vars

(* The timing of the scan: ticks of any length, commands, and any control   *)
(* request written at any time, with an OSAL and peer subsystems that do    *)
(* not fail.                                                                *)
NextGrace ==
    \/ \E e \in ElapsedTimes : Scan_Call(e)
    \/ Scan_Lock
    \/ Scan_Visit
    \/ Scan_Relock
    \/ Scan_End
    \/ PCR_Start
    \/ PCR_Switch
    \/ PCR_Cleaned
    \/ PCR_Created
    \/ CU_Hooks(TRUE)
    \/ CU_Lock
    \/ CU_Main(<<>>, TRUE, TRUE)
    \/ CU_Unload("OS_SUCCESS")
    \/ \E p \in {q \in ParamSet : q.StackSize = 1} : AC_Call("CMD", p)
    \/ \E t \in {"BG", "CMD"} : AppCreateOk(t)
    \/ \E i \in AppIdx : App_Running(i)
    \/ \E i \in AppIdx, r \in RequestInputs : SetControlRequest(i, r)
    \/ Command

SpecGrace == Init /\ [][NextGrace]_vars

(* Two tasks creating apps and loading libraries concurrently.              *)
NextLoad ==
    \E t \in {"CMD", "SU"} :
        \/ \E p \in ParamSet : AC_Call(t, p)
        \/ AC_CallNull(t)
        \/ AppCreate(t)
        \/ \E name \in LibNames, file \in BOOLEAN, entry \in EntryPoints :
              LL_Call(t, name, file, entry)
        \/ LoadLibrary(t)

SpecLoad == Init /\ [][NextLoad]_vars

(* The startup creates a core app in a free slot; the core app may have     *)
(* stopped and may have asked to exit.                                      *)
CoreApp(i, st, r) ==
    /\ lock = NoThread
    /\ AppTable[i].AppState = UNDEFINED
    /\ \A j \in AppIdx : AppTable[j].Type # CORE
    /\ AppTable' = [AppTable EXCEPT ![i] = [ZeroAppRecord EXCEPT
                                               !.Type = CORE,
                                               !.AppState = st,
                                               !.AppControlRequest = r]]
    /\ hist' = Forget(i)
    /\ UNCHANGED <<TaskTable, RegisteredTasks, RegisteredExternalApps, libVars,
                   lock, osal, pc, ac, ll, scanVars>>
    /\ UNCHANGED <<parseVars, sw>>

(* The table scan over every kind of record: core apps, external apps that  *)
(* are starting, running, asked to exit or deleted, and freed slots, with   *)
(* ticks of any length and an OSAL that does not fail.                      *)
NextScan ==
    \/ \E e \in ElapsedTimes : Scan_Call(e)
    \/ Scan_Lock
    \/ Scan_Visit
    \/ Scan_Relock
    \/ Scan_End
    \/ PCR_Start
    \/ PCR_Switch
    \/ PCR_Cleaned
    \/ CU_Hooks(TRUE)
    \/ CU_Lock
    \/ CU_Main(<<>>, TRUE, TRUE)
    \/ CU_Unload("OS_SUCCESS")
    \/ \E p \in {q \in ParamSet : q.StackSize = 1} : AC_Call("CMD", p)
    \/ AppCreateOk("CMD")
    \/ \E i \in AppIdx : App_Running(i)
    \/ \E i \in AppIdx, r \in {APP_EXIT, SYS_DELETE} : SetControlRequest(i, r)
    \/ \E i \in AppIdx, st \in {RUNNING, STOPPED}, r \in {APP_RUN, APP_EXIT} :
          CoreApp(i, st, r)

SpecScan == Init /\ [][NextScan]_vars

(* The requests that make CFE_ES_ProcessControlRequest restart an app or    *)
(* report an invalid request.                                               *)
RestartRequests == {SYS_RESTART, SYS_RELOAD, SYS_EXCEPTION, UNKNOWN_REQUEST}

(* Restarts and reloads: apps without child tasks are restarted and         *)
(* reloaded while the command task creates other apps, with hooks, task     *)
(* deletions, unloads and creations that may fail, and invalid requests.    *)
NextRestart ==
    \/ Scan_Call(APP_SCAN_RATE)
    \/ Scan_Lock
    \/ Scan_Visit
    \/ Scan_Relock
    \/ Scan_End
    \/ PCR_Start
    \/ PCR_Switch
    \/ PCR_Cleaned
    \/ PCR_Created
    \/ \E ok \in BOOLEAN : CU_Hooks(ok)
    \/ CU_Lock
    \/ \E ok \in BOOLEAN : CU_Main(<<>>, ok, TRUE)
    \/ \E res \in UnloadResults : CU_Unload(res)
    \/ \E p \in ParamSet : AC_Call("CMD", p)
    \/ AC_CallNull("CMD")
    \/ \E t \in {"BG", "CMD"} : AppCreate(t)
    \/ \E i \in AppIdx : App_Running(i)
    \/ \E i \in AppIdx, r \in RestartRequests : SetControlRequest(i, r)

SpecRestart == Init /\ [][NextRestart]_vars

(***************************************************************************)
(* C1: the parser never writes ES_AppLoadBuffer at an index >= 128 and no   *)
(* token handed to (and read by) CFE_ES_ParseFileEntry starts at an index   *)
(* >= 128.                                                                  *)
(***************************************************************************)
C1_BufferInBounds ==
    /\ bufMaxWrite < ES_START_BUFF_SIZE
    /\ tokMaxHanded < ES_START_BUFF_SIZE

(***************************************************************************)
(* C2, as stated: a thread inside OS_ModuleLoad, OS_SymbolLookup or         *)
(* OS_TaskCreate, called from CFE_ES_AppCreate or CFE_ES_LoadLibrary, does  *)
(* not hold the shared-data lock.                                           *)
(***************************************************************************)
C2_NoLockInOsalCalls ==
    \A t \in Threads :
        pc[t] \in {"ac_load", "ac_sym", "ac_taskcreate", "ll_load", "ll_sym"}
            => lock # t

(***************************************************************************)
(* C2, amended: a thread inside OS_ModuleLoad or OS_SymbolLookup, called    *)
(* from CFE_ES_AppCreate or CFE_ES_LoadLibrary, does not hold the           *)
(* shared-data lock; a thread inside the OS_TaskCreate of CFE_ES_AppCreate  *)
(* holds it.                                                                *)
(***************************************************************************)
C2_LockOnlyAcrossTaskCreate ==
    \A t \in Threads :
        /\ pc[t] \in {"ac_load", "ac_sym", "ll_load", "ll_sym"} => lock # t
        /\ pc[t] = "ac_taskcreate" => lock = t

C2_Witness ==
    /\ pc["CMD"] = "ac_taskcreate"
    /\ lock = "CMD"
    /\ pc["SU"] = "ll_sym"

(***************************************************************************)
(* C3: the scanning thread does not hold the shared-data lock while         *)
(* CFE_ES_ProcessControlRequest runs nor while CFE_ES_CleanUpApp calls the  *)
(* clean-up hooks; it holds the lock while the child tasks and the main     *)
(* task are cleaned up; and it holds the lock again whenever it examines    *)
(* an app index.                                                            *)
(***************************************************************************)
C3_ScanLockDiscipline ==
    /\ pc["BG"] \in {"pcr_start", "pcr_switch", "pcr_cleaned", "pcr_created",
                     "cu_hooks", "cu_lock", "scan_relock"} => lock # "BG"
    /\ pc["BG"] \in {"cu_child", "cu_unload"} => lock = "BG"
    /\ pc["BG"] = "scan_visit" => lock = "BG"

C3_Witness ==
    /\ pc["BG"] = "cu_unload"
    /\ cu.MainTaskId = 1
    /\ TaskTable[1].AppId = cu.AppId
    /\ TaskTable[1].TaskId = 2
    /\ ~TaskTable[1].RecordUsed
    /\ lock = "BG"

(***************************************************************************)
(* C4: when CFE_ES_ProcessControlRequest is invoked for an app, at least    *)
(* APP_KILL_TIMEOUT * APP_SCAN_RATE milliseconds of elapsed time have been  *)
(* passed to the scan by the ticks that followed the scan which moved the   *)
(* app to WAITING, whatever commands and request writes came in between.    *)
(***************************************************************************)
C4_GraceLowerBound ==
    pc["BG"] = "pcr_start" => hist.graceAcc[pcr.AppID] >= GraceWindow

C4_Witness ==
    /\ pc["BG"] = "pcr_start"
    /\ hist.graceAcc[pcr.AppID] >= GraceWindow
    /\ hist.requests = MaxRequests
    /\ CommandCounter = MaxCommands

(***************************************************************************)
(* C5, as stated: once the elapsed time of all ticks since a kill or        *)
(* restart request became visible on a RUNNING app exceeds                  *)
(* APP_KILL_TIMEOUT * APP_SCAN_RATE, the tick that made it so has invoked   *)
(* CFE_ES_ProcessControlRequest for the app.                                *)
(***************************************************************************)
C5_PromptFromRequest ==
    pc["BG"] = "idle" => \A i \in AppIdx : hist.visAcc[i] <= GraceWindow

(***************************************************************************)
(* C5, amended: CFE_ES_ProcessControlRequest is invoked for a WAITING app   *)
(* at the first scan that is carried out at which the elapsed time of the   *)
(* scans carried out since the one that moved the app to WAITING reaches    *)
(* APP_KILL_TIMEOUT * APP_SCAN_RATE, and at no later scan: between ticks    *)
(* an app that has not been processed has a timer equal to what is left of  *)
(* the window, and the first invocation comes with the window used up.      *)
(***************************************************************************)
C5_PromptFromArming ==
    /\ pc["BG"] = "idle" =>
          \A i \in AppIdx :
              (hist.scanAcc[i] >= 0 /\ hist.pcrCount[i] = 0) =>
                  /\ hist.scanAcc[i] < GraceWindow
                  /\ AppTable[i].AppTimerMsec = GraceWindow - hist.scanAcc[i]
    /\ (pc["BG"] = "pcr_start" /\ hist.pcrCount[pcr.AppID] = 1) =>
          hist.scanAcc[pcr.AppID] = GraceWindow

C5_Witness ==
    /\ pc["BG"] = "pcr_start"
    /\ hist.pcrCount[pcr.AppID] = 1
    /\ hist.scanAcc[pcr.AppID] = GraceWindow
    /\ AppTable[pcr.AppID].AppControlRequest \in GraceRequests

(***************************************************************************)
(* C6: whenever no thread holds the shared-data lock,                       *)
(* RegisteredExternalApps is the number of slots with Type = EXTERNAL and   *)
(* AppState # UNDEFINED.                                                    *)
(***************************************************************************)
C6_SlotConservation ==
    lock = NoThread =>
        RegisteredExternalApps =
            Cardinality({i \in AppIdx : /\ AppTable[i].Type = EXTERNAL
                                        /\ AppTable[i].AppState # UNDEFINED})

C6_Witness ==
    /\ lock = NoThread
    /\ pc["BG"] = "pcr_cleaned"
    /\ pcr.Status = "CFE_ES_APP_CLEANUP_ERR"
    /\ AppTable[pcr.AppID].AppState = UNDEFINED
    /\ RegisteredExternalApps = 1

(***************************************************************************)
(* C7: when no thread holds the lock, no call is in progress and no OSAL    *)
(* unload or delete has failed, a slot in state UNDEFINED has no module     *)
(* still loaded and no task still live that was created for it.             *)
(***************************************************************************)
C7_UndefinedSlotHoldsNothing ==
    (lock = NoThread /\ ~osal.failed /\ \A t \in Threads : pc[t] = "idle") =>
        \A i \in AppIdx :
            AppTable[i].AppState = UNDEFINED =>
                /\ \A m \in osal.modules : osal.modFor[m] # i
                /\ \A k \in osal.tasks : osal.taskFor[k] # i

(***************************************************************************)
(* C8: a call of CFE_ES_AppCreate that returned CFE_ES_ERR_APP_CREATE, and  *)
(* whose own OS_ModuleUnload did not fail, has released the slot it         *)
(* claimed, bound no task record, changed no counter, and left no module    *)
(* that it loaded in the OSAL.                                              *)
(***************************************************************************)
C8_FailedCreateLeavesNothing ==
    \A t \in Threads :
        (hist.acRet[t].code = "CFE_ES_ERR_APP_CREATE" /\ ~hist.acRet[t].unloadFailed) =>
            /\ hist.acRet[t].claimed => hist.acRet[t].released
            /\ ~hist.acRet[t].bound
            /\ ~hist.acRet[t].counted
            /\ ~hist.acRet[t].modLeft

(***************************************************************************)
(* C9: every call of CFE_ES_CleanupTaskResources reaches its return, and    *)
(* the enumeration loop is only left after a pass that found no objects or  *)
(* with the error flag set.                                                 *)
(***************************************************************************)
C9_SweepTerminates ==
    /\ <>(sw.pc = "done")
    /\ [](sw.pc \in {"delete", "done"} => (sw.FoundObjects = 0 \/ sw.ErrorFlag # 0))

C9_Witness ==
    /\ sw.pc = "done"
    /\ sw.ErrorFlag # 0
    /\ sw.FoundObjects > 0
    /\ sw.DeletedObjects > 0

(***************************************************************************)
(* C10: the invalid-state event is emitted at most once per SYS_EXCEPTION   *)
(* request written to an entry; after the event the entry holds SYS_DELETE  *)
(* with an expired timer; unless the request is written again, the next     *)
(* tick invokes CFE_ES_ProcessControlRequest for the entry again, which     *)
(* reads SYS_DELETE, runs CFE_ES_CleanUpApp and leaves the slot UNDEFINED.  *)
(***************************************************************************)
C10_ExceptionSelfHeal ==
    /\ \A i \in AppIdx : hist.excEvents[i] <= hist.excWrites[i]
    /\ \A i \in AppIdx :
          hist.healAge[i] \in {0, 1} =>
              /\ AppTable[i].AppControlRequest = SYS_DELETE
              /\ AppTable[i].AppTimerMsec = 0
              /\ AppTable[i].AppState = WAITING
    /\ pc["BG"] = "idle" => \A i \in AppIdx : hist.healAge[i] # 1
    /\ \A i \in AppIdx :
          hist.healAge[i] = 2 =>
              /\ pcr.AppID = i
              /\ pc["BG"] \in {"pcr_start", "pcr_switch", "cu_hooks", "cu_lock",
                               "cu_child", "cu_unload"}
              /\ pc["BG"] # "pcr_start" => pcr.Request = SYS_DELETE
    /\ \A i \in AppIdx :
          hist.healAge[i] = 3 =>
              /\ pc["BG"] = "pcr_cleaned"
              /\ pcr.AppID = i
              /\ AppTable[i].AppState = UNDEFINED

C10_Witness ==
    /\ pc["BG"] = "pcr_cleaned"
    /\ hist.healAge[pcr.AppID] = 3
    /\ AppTable[pcr.AppID].AppState = UNDEFINED

(***************************************************************************)
(* C11, as stated: for an entry whose control request, of any value above   *)
(* APP_RUN, was seen by the scan while RUNNING and was not written again,   *)
(* the app is moved to WAITING once and CFE_ES_ProcessControlRequest is     *)
(* invoked for the entry once and no more: the invocation comes after the   *)
(* move, and the entry is not torn down without it.                         *)
(***************************************************************************)
C11_OneWaitOneRequest ==
    \A i \in AppIdx :
        (hist.obsReq[i] > APP_RUN /\ ~hist.overwritten[i]) =>
            /\ hist.waitCount[i] = 1
            /\ hist.pcrCount[i] <= 1
            /\ (pc["BG"] \in {"cu_hooks", "cu_lock", "cu_child", "cu_unload"}
                  /\ cu.AppId = i) => hist.pcrCount[i] >= 1

(* The scan thread is inside the invocation of CFE_ES_ProcessControlRequest *)
(* for entry i, up to the point where CFE_ES_CleanUpApp frees the slot.     *)
Processing(i) ==
    /\ pcr.AppID = i
    /\ pc["BG"] \in {"pcr_start", "pcr_switch", "cu_hooks", "cu_lock", "cu_child",
                     "cu_unload"}

(***************************************************************************)
(* C11, amended: for an entry whose control request was seen by the scan    *)
(* while RUNNING and was not written again, the app is moved to WAITING     *)
(* once and stays WAITING until it is torn down.  If the request is         *)
(* APP_EXIT, APP_ERROR, SYS_DELETE, SYS_RESTART or SYS_RELOAD,              *)
(* CFE_ES_ProcessControlRequest is invoked once, and that invocation tears  *)
(* the entry down.  If it is SYS_EXCEPTION or an unknown value, the         *)
(* function is invoked twice: the first invocation only changes the         *)
(* request to SYS_DELETE and the second one, which reads SYS_DELETE, tears  *)
(* the entry down.  The entry is not torn down without an invocation.       *)
(***************************************************************************)
C11_OneWaitThenRequests ==
    \A i \in AppIdx :
        (hist.obsReq[i] > APP_RUN /\ ~hist.overwritten[i]) =>
            /\ hist.waitCount[i] = 1
            /\ AppTable[i].AppState = WAITING
            /\ (pc["BG"] \in {"cu_hooks", "cu_lock", "cu_child", "cu_unload"}
                  /\ cu.AppId = i) => hist.pcrCount[i] >= 1
            /\ hist.obsReq[i] \in GraceRequests =>
                  /\ hist.pcrCount[i] <= 1
                  /\ hist.pcrCount[i] = 1 => Processing(i)
            /\ hist.obsReq[i] \notin GraceRequests =>
                  /\ hist.pcrCount[i] <= 2
                  /\ hist.pcrCount[i] >= 1 =>
                        AppTable[i].AppControlRequest = SYS_DELETE \/ Processing(i)
                  /\ hist.pcrCount[i] = 2 =>
                        /\ Processing(i)
                        /\ pc["BG"] # "pcr_start" => pcr.Request = SYS_DELETE

C11_Witness ==
    /\ pc["BG"] = "cu_unload"
    /\ hist.obsReq[cu.AppId] = SYS_EXCEPTION
    /\ ~hist.overwritten[cu.AppId]
    /\ hist.pcrCount[cu.AppId] = 2
    /\ \E j \in AppIdx : /\ hist.obsReq[j] = SYS_RESTART
                         /\ hist.waitCount[j] = 1
                         /\ hist.pcrCount[j] = 0

(***************************************************************************)
(* C12, as stated: when CFE_ES_CleanUpApp has returned for an app that      *)
(* CFE_ES_AppCreate created, the slot is UNDEFINED, the main task is not    *)
(* live in the OSAL, and RegisteredExternalApps and RegisteredTasks have    *)
(* each gone down by one plus the number of child tasks of the app.         *)
(***************************************************************************)
C12_CleanupReleasesBoth ==
    (hist.cuObs.done /\ hist.cuObs.ext) =>
        /\ hist.cuObs.state = UNDEFINED
        /\ ~hist.cuObs.mainLive
        /\ hist.cuObs.dApps = 1 + hist.cuObs.children
        /\ hist.cuObs.dTasks = 1 + hist.cuObs.children

(***************************************************************************)
(* C12, amended: when CFE_ES_CleanUpApp has returned for an app that        *)
(* CFE_ES_AppCreate created, the slot is UNDEFINED, RegisteredExternalApps  *)
(* has gone down by exactly one, and RegisteredTasks has gone down by one   *)
(* plus the number of in-use child task records of the app; the main task   *)
(* is no longer live in the OSAL unless the call returned                   *)
(* CFE_ES_APP_CLEANUP_ERR.                                                  *)
(***************************************************************************)
C12_CleanupReleases ==
    (hist.cuObs.done /\ hist.cuObs.ext) =>
        /\ hist.cuObs.state = UNDEFINED
        /\ hist.cuObs.mainLive => hist.cuObs.rc = "CFE_ES_APP_CLEANUP_ERR"
        /\ hist.cuObs.dApps = 1
        /\ hist.cuObs.dTasks = 1 + hist.cuObs.children

C12_Witness ==
    /\ pc["BG"] = "pcr_cleaned"
    /\ hist.cuObs.done
    /\ hist.cuObs.ext
    /\ hist.cuObs.children = 1
    /\ hist.cuObs.dTasks = 2
    /\ hist.cuObs.dApps = 1
    /\ ~hist.cuObs.mainLive
    /\ hist.cuObs.rc = "CFE_SUCCESS"

C14_TaskRecordsHaveApps ==
    lock = NoThread =>
        \A k \in TaskIdx :
            TaskTable[k].RecordUsed => AppTable[TaskTable[k].AppId].AppState # UNDEFINED

C15_LibraryUniqueness ==
    /\ \A j \in LibIdx, k \in LibIdx :
          (j # k /\ LibTable[j].RecordUsed /\ LibTable[k].RecordUsed) =>
              LibTable[j].LibName # LibTable[k].LibName
    /\ \A t \in Threads :
          hist.llRet[t].code = "CFE_ES_LIB_ALREADY_LOADED" =>
              /\ hist.llRet[t].id \in LibIdx
              /\ hist.llRet[t].held = hist.llRet[t].name
              /\ ~hist.llRet[t].wrote
              /\ ~hist.llRet[t].claimed
    /\ RegisteredLibs <=
          Cardinality({LibTable[k].LibName : k \in {j \in LibIdx : LibTable[j].RecordUsed}})

C15_Witness ==
    /\ hist.llRet["CMD"].code = "CFE_SUCCESS"
    /\ hist.llRet["SU"].code = "CFE_ES_LIB_ALREADY_LOADED"
    /\ hist.llRet["SU"].id = hist.llRet["CMD"].id
    /\ hist.llRet["SU"].name = hist.llRet["CMD"].name
    /\ RegisteredLibs = 1

(***************************************************************************)
(* C17: when CFE_ES_ProcessControlRequest has returned it has emitted an    *)
(* event; after the event of SYS_EXCEPTION or of an unknown request the     *)
(* entry holds SYS_DELETE; and after the event of a restart or reload       *)
(* whose clean-up or re-create failed the app still has a record, so that   *)
(* the restart can be attempted again.                                      *)
(***************************************************************************)
C17_ErrorsRetriedOrDeleted ==
    pc["BG"] = "scan_relock" =>
        /\ pcr.Event # "none"
        /\ pcr.Event \in {"CFE_ES_PCR_ERR1_EID", "CFE_ES_PCR_ERR2_EID"} =>
              \/ AppTable[pcr.AppID].AppControlRequest = SYS_DELETE
              \/ hist.overwritten[pcr.AppID]
        /\ pcr.Event \in {"CFE_ES_RESTART_APP_ERR3_EID", "CFE_ES_RESTART_APP_ERR4_EID",
                          "CFE_ES_RELOAD_APP_ERR3_EID", "CFE_ES_RELOAD_APP_ERR4_EID"} =>
              \E j \in AppIdx :
                  /\ AppTable[j].AppState # UNDEFINED
                  /\ AppTable[j].StartParams.Name = pcr.AppStartParams.Name

(***************************************************************************)
(* C17, amended: every return of CFE_ES_ProcessControlRequest is preceded   *)
(* by an event.  For SYS_EXCEPTION and for an unknown request the function  *)
(* emits the error event and changes the request to SYS_DELETE.  For a      *)
(* restart or reload whose clean-up failed it emits the clean-up error      *)
(* event and does not call CFE_ES_AppCreate; when the clean-up succeeded    *)
(* it calls CFE_ES_AppCreate once and emits the event of its result.  A     *)
(* failed restart or reload is not attempted again: the function returns    *)
(* to the scan, and a failed re-create has produced no app id.              *)
(***************************************************************************)
C17_ErrorsReported ==
    [][/\ (pc["BG"] = "pcr_switch" /\ pc'["BG"] = "scan_relock") =>
             /\ pcr.Request \notin GraceRequests
             /\ pcr'.Event = IF pcr.Request = SYS_EXCEPTION
                             THEN "CFE_ES_PCR_ERR1_EID" ELSE "CFE_ES_PCR_ERR2_EID"
             /\ AppTable'[pcr.AppID].AppControlRequest = SYS_DELETE
       /\ (pc["BG"] = "pcr_cleaned" /\ pc'["BG"] = "scan_relock") =>
             /\ pcr'.Event # "none"
             /\ pcr.Request = SYS_RESTART =>
                   /\ pcr.Status # "CFE_SUCCESS"
                   /\ pcr'.Event = "CFE_ES_RESTART_APP_ERR4_EID"
             /\ pcr.Request = SYS_RELOAD =>
                   /\ pcr.Status # "CFE_SUCCESS"
                   /\ pcr'.Event = "CFE_ES_RELOAD_APP_ERR4_EID"
       /\ (pc["BG"] = "pcr_cleaned" /\ pc'["BG"] \notin {"pcr_cleaned", "scan_relock"}) =>
             /\ pc'["BG"] = "ac_claim"
             /\ pcr.Request \in {SYS_RESTART, SYS_RELOAD}
             /\ pcr.Status = "CFE_SUCCESS"
       /\ (pc["BG"] = "pcr_created" /\ pc'["BG"] # "pcr_created") =>
             /\ pc'["BG"] = "scan_relock"
             /\ pcr.Request \in {SYS_RESTART, SYS_RELOAD}
             /\ hist.acRet["BG"].code = "CFE_SUCCESS" =>
                   /\ pcr'.Event \in {"CFE_ES_RESTART_APP_INF_EID",
                                       "CFE_ES_RELOAD_APP_INF_EID"}
                   /\ hist.acRet["BG"].id \in AppIdx
             /\ hist.acRet["BG"].code # "CFE_SUCCESS" =>
                   /\ pcr'.Event = IF pcr.Request = SYS_RESTART
                                   THEN "CFE_ES_RESTART_APP_ERR3_EID"
                                   ELSE "CFE_ES_RELOAD_APP_ERR3_EID"
                   /\ hist.acRet["BG"].id = -1
      ]_vars

C17_Witness ==
    /\ pc["BG"] = "scan_relock"
    /\ pcr.Event = "CFE_ES_RELOAD_APP_ERR3_EID"
    /\ hist.acRet["BG"].code = "CFE_ES_ERR_APP_CREATE"
    /\ \A i \in AppIdx : AppTable[i].AppState = UNDEFINED

(* The start parameters that a restart must preserve.                       *)
SameStartParams(a, b) ==
    /\ a.Name = b.Name
    /\ a.FileName = b.FileName
    /\ a.EntryPoint = b.EntryPoint
    /\ a.Priority = b.Priority
    /\ a.StackSize = b.StackSize
    /\ a.ExceptionAction = b.ExceptionAction

(***************************************************************************)
(* C18: when the clean-up and the re-create of a restart or reload have     *)
(* both succeeded, the new app record has the name, file name, entry        *)
(* point, priority, stack size and exception action of the record that was  *)
(* torn down, also when another task has claimed the freed slot in between. *)
(***************************************************************************)
C18_RestartKeepsParams ==
    (pc["BG"] = "pcr_created" /\ hist.acRet["BG"].code = "CFE_SUCCESS") =>
        /\ hist.torn.Name # <<>>
        /\ SameStartParams(AppTable[hist.acRet["BG"].id].StartParams, hist.torn)
        /\ AppTable[hist.acRet["BG"].id].AppState # UNDEFINED

C18_Witness ==
    /\ pc["BG"] = "pcr_created"
    /\ pcr.Request = SYS_RELOAD
    /\ hist.acRet["BG"].code = "CFE_SUCCESS"
    /\ hist.acRet["BG"].id # pcr.AppID
    /\ AppTable[pcr.AppID].AppState # UNDEFINED
    /\ ~SameStartParams(AppTable[pcr.AppID].StartParams, hist.torn)
    /\ SameStartParams(AppTable[hist.acRet["BG"].id].StartParams, hist.torn)

(***************************************************************************)
(* C19: a call of CFE_ES_LoadLibrary that got past the check of the name    *)
(* length and failed has returned CFE_ES_ERR_LOAD_LIB.                      *)
(***************************************************************************)
C19_FailuresReturnLoadLib ==
    \A t \in Threads :
        hist.llRet[t].code \notin {"none", "CFE_SUCCESS", "CFE_ES_LIB_ALREADY_LOADED",
                                   "CFE_ES_BAD_ARGUMENT"} =>
            hist.llRet[t].code = "CFE_ES_ERR_LOAD_LIB"

(***************************************************************************)
(* C20: a call of CFE_ES_LoadLibrary that claimed a slot and failed has     *)
(* called OS_ModuleUnload if and only if it had loaded the module, has      *)
(* cleared RecordUsed of its slot and has not counted the library; a call   *)
(* that succeeded has counted it, kept the slot and unloaded nothing; and   *)
(* when no call is in progress RegisteredLibs is the number of in-use       *)
(* records, so that failed loads leave both as they were.                   *)
(***************************************************************************)
C20_FailedLoadLeavesNothing ==
    /\ \A t \in Threads :
          LET r == hist.llRet[t]
          IN /\ (r.claimed /\ r.code # "CFE_SUCCESS") =>
                    /\ r.unloadCalled = r.loaded
                    /\ r.released
                    /\ ~r.counted
             /\ r.code = "CFE_SUCCESS" =>
                    /\ r.claimed
                    /\ r.counted
                    /\ ~r.released
                    /\ ~r.unloadCalled
             /\ r.counted => r.code = "CFE_SUCCESS"
    /\ (\A t \in Threads : pc[t] \notin {"ll_claim", "ll_load", "ll_sym", "ll_init",
                                         "ll_commit", "ll_unload", "ll_release"}) =>
          RegisteredLibs = Cardinality({k \in LibIdx : LibTable[k].RecordUsed})

C20_Witness ==
    /\ hist.llRet["CMD"].claimed
    /\ hist.llRet["CMD"].code = "LIB_INIT_ERROR"
    /\ hist.llRet["CMD"].loaded
    /\ hist.llRet["CMD"].unloadCalled
    /\ hist.llRet["SU"].claimed
    /\ hist.llRet["SU"].code = "CFE_ES_ERR_LOAD_LIB"
    /\ ~hist.llRet["SU"].loaded
    /\ RegisteredLibs = 0
    /\ \A k \in LibIdx : ~LibTable[k].RecordUsed

(***************************************************************************)
(* C21: a call of CFE_ES_RunAppTableScan with elapsed time e leaves the     *)
(* scan idle, changing no app record and only subtracting e from            *)
(* BackgroundScanTimer, exactly when PendingAppStateChanges is 0, the       *)
(* command counter equals LastScanCommandCount and BackgroundScanTimer is   *)
(* greater than e; in every other case it sets BackgroundScanTimer to       *)
(* APP_SCAN_RATE, copies the command counter, zeroes                        *)
(* PendingAppStateChanges and starts a scan, and a scan that has started    *)
(* returns only after the last index of the table.                          *)
(***************************************************************************)
C21_ScanDecision ==
    [][/\ (pc["BG"] = "idle" /\ scan' # scan) =>
             \E e \in ElapsedTimes :
                IF /\ scan.PendingAppStateChanges = 0
                   /\ scan.LastScanCommandCount = CommandCounter
                   /\ scan.BackgroundScanTimer > e
                THEN /\ pc'["BG"] = "idle"
                     /\ scan' = [scan EXCEPT !.BackgroundScanTimer = @ - e]
                     /\ AppTable' = AppTable
                ELSE /\ pc'["BG"] = "scan_lock"
                     /\ scan'.ElapsedTime = e
                     /\ scan'.BackgroundScanTimer = APP_SCAN_RATE
                     /\ scan'.LastScanCommandCount = CommandCounter
                     /\ scan'.PendingAppStateChanges = 0
                     /\ AppTable' = AppTable
       /\ (pc["BG"] = "scan_lock" /\ pc'["BG"] # "scan_lock") =>
             pc'["BG"] = "scan_visit" /\ scan'.i = 0
       /\ (pc["BG"] = "scan_visit" /\ pc'["BG"] = "scan_visit") =>
             scan'.i \in {scan.i, scan.i + 1}
       /\ (pc["BG"] = "scan_relock" /\ pc'["BG"] = "scan_visit") =>
             scan'.i = scan.i + 1
       /\ (pc["BG"] # "idle" /\ pc'["BG"] = "idle") =>
             pc["BG"] = "scan_visit" /\ scan.i = MaxApps
      ]_vars

C21_Witness ==
    /\ pc["BG"] = "idle"
    /\ CommandCounter = 1
    /\ scan.LastScanCommandCount = 1
    /\ scan.BackgroundScanTimer = APP_SCAN_RATE - 1

(***************************************************************************)
(* C22: when CFE_ES_AppCreate returns success, also when it was called by   *)
(* the restart or reload of CFE_ES_ProcessControlRequest, the new app       *)
(* record is in state RUNNING with control request APP_RUN.                 *)
(***************************************************************************)
C22_NewAppRunning ==
    [][\A t \in Threads :
          (/\ pc[t] = "ac_taskcreate"
           /\ pc'[t] # "ac_taskcreate"
           /\ hist'.acRet[t].code = "CFE_SUCCESS") =>
              /\ AppTable'[hist'.acRet[t].id].AppState = RUNNING
              /\ AppTable'[hist'.acRet[t].id].AppControlRequest = APP_RUN
      ]_vars

(***************************************************************************)
(* C22, amended: when CFE_ES_AppCreate returns success, also when it was    *)
(* called by the restart or reload of CFE_ES_ProcessControlRequest, the     *)
(* new app record is an EXTERNAL record in state EARLY_INIT with control    *)
(* request APP_RUN and a wait timer of 0.                                   *)
(***************************************************************************)
C22_NewAppEarlyInit ==
    [][\A t \in Threads :
          (/\ pc[t] = "ac_taskcreate"
           /\ pc'[t] # "ac_taskcreate"
           /\ hist'.acRet[t].code = "CFE_SUCCESS") =>
              /\ hist'.acRet[t].id \in AppIdx
              /\ AppTable'[hist'.acRet[t].id].Type = EXTERNAL
              /\ AppTable'[hist'.acRet[t].id].AppState = EARLY_INIT
              /\ AppTable'[hist'.acRet[t].id].AppControlRequest = APP_RUN
              /\ AppTable'[hist'.acRet[t].id].AppTimerMsec = 0
      ]_vars

C22_Witness ==
    /\ pc["BG"] = "pcr_created"
    /\ pcr.Request = SYS_RESTART
    /\ hist.acRet["BG"].code = "CFE_SUCCESS"
    /\ AppTable[hist.acRet["BG"].id].AppState = EARLY_INIT
    /\ AppTable[hist.acRet["BG"].id].AppControlRequest = APP_RUN

(***************************************************************************)
(* C23: at the ';' of a record whose data bytes and commas number more than *)
(* 128, CFE_ES_StartApplications logs the record as too long once and does  *)
(* not call CFE_ES_ParseFileEntry; at the ';' of any other record it calls  *)
(* CFE_ES_ParseFileEntry once and logs nothing; nothing else logs or        *)
(* dispatches.  After either, BuffLen and NumTokens are 0 and LineTooLong   *)
(* is false, and every token of the record in progress is an offset set by  *)
(* that record, so the record after an over-long one is parsed as if the    *)
(* over-long one had not been there.                                        *)
(***************************************************************************)
C23_TooLongDropped ==
    [][/\ (nTooLong' # nTooLong \/ nDispatched' # nDispatched) =>
             /\ BuffLen' = 0
             /\ NumTokens' = 0
             /\ LineTooLong' = FALSE
             /\ IF BuffLen > ES_START_BUFF_SIZE
                THEN /\ nTooLong' = nTooLong + 1
                     /\ nDispatched' = nDispatched
                     /\ lastEntry' = lastEntry
                ELSE /\ nTooLong' = nTooLong
                     /\ nDispatched' = nDispatched + 1
                     /\ lastEntry'.numTokens = 1 + NumTokens
                     /\ \A k \in 1 .. lastEntry'.numTokens :
                           /\ lastEntry'.tokens[k] >= 0
                           /\ lastEntry'.tokens[k] <= BuffLen
                           /\ k > 1 => lastEntry'.tokens[k] > lastEntry'.tokens[k - 1]
       /\ (saPc = "loop" /\ BuffLen' = 0 /\ BuffLen > 0) =>
             (nTooLong' # nTooLong \/ nDispatched' # nDispatched)
      ]_vars

C23_Witness ==
    /\ nTooLong = 1
    /\ nDispatched = 1
    /\ lastEntry.tooLongBefore = 1
    /\ lastEntry.numTokens = 2
    /\ lastEntry.tokens = <<0, 2>>
    /\ TokenList[2] > ES_START_BUFF_SIZE

(***************************************************************************)
(* C24: the step that reads the first '!' closes the file and changes       *)
(* nothing else, so the record in progress is not dispatched and not        *)
(* logged; once the '!' has been read CFE_ES_StartApplications is out of    *)
(* its loop and reads no byte, dispatches no record and changes none of its *)
(* variables, whether the '!' came between records, inside a token or       *)
(* inside an over-long record.                                              *)
(***************************************************************************)
C24_SentinelHalts ==
    [][/\ sentinel' => saPc' = "closed"
       /\ (~sentinel /\ sentinel') =>
             /\ saPc = "loop"
             /\ nReads' = nReads
             /\ nDispatched' = nDispatched
             /\ nTooLong' = nTooLong
             /\ lastEntry' = lastEntry
             /\ tokMaxHanded' = tokMaxHanded
             /\ bufMaxWrite' = bufMaxWrite
       /\ sentinel => parseVars' = parseVars
      ]_vars

C24_Witness ==
    /\ sentinel
    /\ saPc = "closed"
    /\ nDispatched = 1
    /\ LineTooLong
    /\ NumTokens = 1
    /\ BuffLen > ES_START_BUFF_SIZE

(***************************************************************************)
(* C25: one step of the scan loop at index i changes no record but i, and   *)
(* changes record i only if its Type is EXTERNAL and either its AppState is *)
(* above RUNNING, when the app is counted in PendingAppStateChanges and     *)
(* its timer is decreased by the elapsed time or, if that would not leave   *)
(* it positive, set to 0 and CFE_ES_ProcessControlRequest invoked for i;    *)
(* or its AppState is RUNNING and its control request above APP_RUN, when   *)
(* AppState becomes WAITING and the timer APP_KILL_TIMEOUT * APP_SCAN_RATE. *)
(* Records of core apps, of slots in a state below RUNNING and of RUNNING   *)
(* apps with request APP_RUN are left as they are, and                      *)
(* CFE_ES_ProcessControlRequest is invoked in no other case.                *)
(***************************************************************************)
C25_ScanEffect ==
    [][/\ (pc["BG"] = "scan_visit" /\ scan.i < MaxApps /\ scan' # scan) =>
            LET i == scan.i
                app == AppTable[i]
                e == scan.ElapsedTime
            IN /\ \A j \in AppIdx \ {i} : AppTable'[j] = AppTable[j]
               /\ TaskTable' = TaskTable
               /\ IF app.Type = EXTERNAL /\ app.AppState \in {WAITING, STOPPED}
                  THEN /\ scan'.PendingAppStateChanges = scan.PendingAppStateChanges + 1
                       /\ IF app.AppTimerMsec > e
                          THEN /\ AppTable'[i] = [app EXCEPT !.AppTimerMsec = @ - e]
                               /\ pc'["BG"] = "scan_visit"
                          ELSE /\ AppTable'[i] = [app EXCEPT !.AppTimerMsec = 0]
                               /\ pc'["BG"] = "pcr_start"
                               /\ pcr'.AppID = i
                  ELSE /\ scan'.PendingAppStateChanges = scan.PendingAppStateChanges
                       /\ pc'["BG"] = "scan_visit"
                       /\ IF /\ app.Type = EXTERNAL
                             /\ app.AppState = RUNNING
                             /\ app.AppControlRequest \in (APP_RUN + 1) .. UNKNOWN_REQUEST
                          THEN AppTable'[i] =
                                  [app EXCEPT !.AppState = WAITING,
                                              !.AppTimerMsec = APP_KILL_TIMEOUT * APP_SCAN_RATE]
                          ELSE AppTable'[i] = app
       /\ (pc["BG"] # "pcr_start" /\ pc'["BG"] = "pcr_start") =>
             /\ pc["BG"] = "scan_visit"
             /\ AppTable[scan.i].Type = EXTERNAL
             /\ AppTable[scan.i].AppState \in {WAITING, STOPPED}
             /\ AppTable[scan.i].AppTimerMsec <= scan.ElapsedTime
      ]_vars

C25_Witness ==
    /\ pc["BG"] = "scan_visit"
    /\ scan.i = MaxApps
    /\ \E i \in AppIdx :
          /\ AppTable[i].Type = CORE
          /\ AppTable[i].AppState = RUNNING
          /\ AppTable[i].AppControlRequest = APP_EXIT
    /\ \E i \in AppIdx :
          /\ AppTable[i].Type = EXTERNAL
          /\ AppTable[i].AppState = EARLY_INIT
          /\ AppTable[i].AppControlRequest = SYS_DELETE

(* Thread t is inside CFE_ES_AppCreate with a slot it claimed and has not    *)
(* released.                                                                *)
Owns(t) == ac[t].claimed /\ ~ac[t].released

(***************************************************************************)
(* C26: a call of CFE_ES_AppCreate claims a slot in one step taken with the *)
(* lock free: the slot is the lowest one in state UNDEFINED, it becomes a   *)
(* zeroed record in state EARLY_INIT and no other record changes; a record  *)
(* enters EARLY_INIT or is zeroed only by such a step and only from state   *)
(* UNDEFINED; and under every interleaving two calls never own the same     *)
(* slot, and an owned slot is in state EARLY_INIT.                          *)
(***************************************************************************)
C26_ClaimExclusive ==
    [][/\ \A t \in Threads :
             (~ac[t].claimed /\ ac'[t].claimed) =>
                 LET i == ac'[t].i
                 IN /\ lock = NoThread
                    /\ i \in AppIdx
                    /\ AppTable[i].AppState = UNDEFINED
                    /\ \A j \in AppIdx : j < i => AppTable[j].AppState # UNDEFINED
                    /\ AppTable'[i] = [ZeroAppRecord EXCEPT !.AppState = EARLY_INIT]
                    /\ \A j \in AppIdx \ {i} : AppTable'[j] = AppTable[j]
                    /\ \A u \in Threads \ {t} : ac'[u] = ac[u]
       /\ \A j \in AppIdx :
             (\/ AppTable'[j].AppState = EARLY_INIT /\ AppTable[j].AppState # EARLY_INIT
              \/ AppTable'[j].Type = TYPE_NONE /\ AppTable[j].Type # TYPE_NONE) =>
                 /\ AppTable[j].AppState = UNDEFINED
                 /\ \E t \in Threads : ~ac[t].claimed /\ ac'[t].claimed /\ ac'[t].i = j
       /\ \A t \in Threads, u \in Threads :
             (t # u /\ Owns(t)' /\ Owns(u)') => ac'[t].i # ac'[u].i
       /\ \A t \in Threads :
             Owns(t)' => AppTable'[ac'[t].i].AppState = EARLY_INIT
      ]_vars

C26_Witness ==
    /\ Owns("CMD")
    /\ Owns("SU")
    /\ ac["CMD"].i = 1
    /\ ac["SU"].i = 0
    /\ pc["CMD"] = "ac_load"
    /\ pc["SU"] = "ac_populate"

(* The positions of the teardown trace at which op was done.                *)
Where(op) == {n \in DOMAIN hist.cuObs.trace : hist.cuObs.trace[n].op = op}

(***************************************************************************)
(* C27: CFE_ES_CleanUpApp calls the hooks of tables, software bus, time and *)
(* events first and in this order; then it cleans up child tasks, each one  *)
(* a task that had an in-use record of this app with a task id other than   *)
(* the main task id when the lock was taken, and each at most once; it      *)
(* cleans up the main task once, after all of these children; it unloads    *)
(* the module after the main task; and it sets AppState to UNDEFINED last.  *)
(***************************************************************************)
C27_TeardownOrder ==
    LET tr == hist.cuObs.trace
        kids == {tr[n].id : n \in Where("child")}
    IN tr # <<>> =>
        /\ Len(tr) >= 4
        /\ [n \in 1 .. 4 |-> tr[n].op] = <<"TBL", "SB", "TIME", "EVS">>
        /\ \A n \in 5 .. Len(tr) : tr[n].op \in {"child", "main", "unload", "undefined"}
        /\ \A n \in Where("child") :
              /\ tr[n].id # cu.MainTaskId
              /\ \A k \in Where("child") : k # n => tr[k].id # tr[n].id
              /\ \A k \in Where("main") \cup Where("unload") \cup Where("undefined") : n < k
              /\ pc["BG"] \in {"cu_child", "cu_unload"} => tr[n].id \in hist.cuObs.kids
        /\ Cardinality(Where("main")) <= 1
        /\ \A n \in Where("main") :
              /\ tr[n].id = cu.MainTaskId
              /\ Cardinality(kids) = hist.cuObs.children
              /\ pc["BG"] = "cu_unload" => kids = hist.cuObs.kids
              /\ \A k \in Where("unload") \cup Where("undefined") : n < k
        /\ Cardinality(Where("unload")) <= 1
        /\ \A n \in Where("unload") : Where("main") # {} /\ n = Len(tr) - 1
        /\ \A n \in Where("undefined") :
              /\ n = Len(tr)
              /\ tr[n].id = cu.AppId
              /\ Where("main") # {}
        /\ hist.cuObs.done <=> Where("undefined") # {}
        /\ (hist.cuObs.done /\ hist.cuObs.ext) => Where("unload") # {}

C27_Witness ==
    /\ hist.cuObs.done
    /\ hist.cuObs.children = 1
    /\ [n \in 1 .. Len(hist.cuObs.trace) |-> hist.cuObs.trace[n].op] =
          <<"TBL", "SB", "TIME", "EVS", "child", "main", "unload", "undefined">>

(***************************************************************************)
(* C28: CFE_ES_CleanupTaskResources returns CFE_ES_TASK_DELETE_ERR when the *)
(* delete of the task failed, whatever error an object delete recorded;     *)
(* otherwise the recorded object-delete error if there is one; otherwise    *)
(* CFE_ES_APP_CLEANUP_ERR if the last pass of the enumeration found         *)
(* objects; otherwise CFE_SUCCESS.                                          *)
(***************************************************************************)
C28_ResultOfCleanup ==
    sw.pc = "done" =>
        sw.Result = IF osal.failed THEN "CFE_ES_TASK_DELETE_ERR"
                    ELSE IF sw.OverallStatus # "CFE_SUCCESS" THEN sw.OverallStatus
                    ELSE IF sw.FoundObjects > 0 THEN "CFE_ES_APP_CLEANUP_ERR"
                    ELSE "CFE_SUCCESS"

C28_Witness ==
    /\ sw.pc = "done"
    /\ osal.failed
    /\ sw.OverallStatus = "CFE_ES_QUEUE_DELETE_ERR"
    /\ sw.Result = "CFE_ES_TASK_DELETE_ERR"

(* The error kind at a place of the priority list.                          *)
ErrorOfRank(r) ==
    CASE r = 0 -> "CFE_SUCCESS"
      [] r = 1 -> "CFE_ES_ERR_CHILD_TASK_DELETE"
      [] r = 2 -> "CFE_ES_QUEUE_DELETE_ERR"
      [] r = 3 -> "CFE_ES_BIN_SEM_DELETE_ERR"
      [] r = 4 -> "CFE_ES_COUNT_SEM_DELETE_ERR"
      [] r = 5 -> "CFE_ES_MUT_SEM_DELETE_ERR"
      [] r = 6 -> "CFE_ES_TIMER_DELETE_ERR"
      [] OTHER -> "CFE_ES_APP_CLEANUP_ERR"

(***************************************************************************)
(* C29: the error that CFE_ES_CleanupTaskResources has recorded is the one  *)
(* of the failed kind that comes first in the priority list child task,     *)
(* queue, binary semaphore, counting semaphore, mutex, timer, generic,      *)
(* whatever the order in which the objects were reported.                   *)
(***************************************************************************)
C29_PriorityWins == sw.OverallStatus = ErrorOfRank(sw.worst)

(***************************************************************************)
(* C30: the step that ends a call of CFE_ES_CleanupTaskResources marks the  *)
(* task record of the task not in use and decrements RegisteredTasks by     *)
(* one, whatever the result, and changes no other task record, no app       *)
(* record and no other counter; the steps before it change none of these.   *)
(***************************************************************************)
C30_RecordAlwaysFreed ==
    [][/\ (sw.pc = "delete" /\ sw'.pc = "done") =>
             /\ ValidTaskId(sw.TaskId) => ~TaskTable'[ArrayIndex(sw.TaskId)].RecordUsed
             /\ \A k \in TaskIdx :
                   (~ValidTaskId(sw.TaskId) \/ k # ArrayIndex(sw.TaskId)) =>
                       TaskTable'[k] = TaskTable[k]
             /\ RegisteredTasks' = Dec32(RegisteredTasks)
             /\ AppTable' = AppTable
             /\ RegisteredExternalApps' = RegisteredExternalApps
             /\ RegisteredLibs' = RegisteredLibs
       /\ (sw.pc \in {"off", "pass"} /\ sw' # sw) =>
             /\ TaskTable' = TaskTable
             /\ RegisteredTasks' = RegisteredTasks
             /\ AppTable' = AppTable
             /\ RegisteredExternalApps' = RegisteredExternalApps
             /\ RegisteredLibs' = RegisteredLibs
      ]_vars

(***************************************************************************)
(* C31: the scan step that visits an external app in WAITING decreases its  *)
(* grace timer by ElapsedTime when the timer is strictly greater than       *)
(* ElapsedTime, and otherwise sets it to 0 and goes on to                   *)
(* CFE_ES_ProcessControlRequest for that app; every grace timer stays       *)
(* between 0 and APP_KILL_TIMEOUT * APP_SCAN_RATE, and no step increases    *)
(* the timer of an app that is WAITING before and after the step.           *)
(***************************************************************************)
C31_TimerSaturates ==
    [][/\ \A i \in AppIdx :
             (AppTable[i].Type = EXTERNAL /\ AppTable[i].AppState = WAITING) =>
                 /\ (pc["BG"] = "scan_visit" /\ scan.i = i /\ scan' # scan) =>
                        IF AppTable[i].AppTimerMsec > scan.ElapsedTime
                        THEN /\ AppTable'[i].AppTimerMsec =
                                    AppTable[i].AppTimerMsec - scan.ElapsedTime
                             /\ pc'["BG"] = "scan_visit"
                        ELSE /\ AppTable'[i].AppTimerMsec = 0
                             /\ pc'["BG"] = "pcr_start"
                             /\ pcr'.AppID = i
                 /\ AppTable'[i].AppState = WAITING =>
                        AppTable'[i].AppTimerMsec <= AppTable[i].AppTimerMsec
       /\ \A i \in AppIdx : AppTable'[i].AppTimerMsec \in 0 .. GraceWindow
      ]_vars

C31_Witness ==
    \E i \in AppIdx :
        /\ AppTable[i].Type = EXTERNAL
        /\ AppTable[i].AppState = WAITING
        /\ AppTable[i].AppTimerMsec = 0
        /\ hist.scanAcc[i] >= GraceWindow
        /\ pc["BG"] = "pcr_start"
        /\ pcr.AppID = i

(***************************************************************************)
(* C32: a call of CFE_ES_ParseFileEntry with fewer than 8 tokens, or with   *)
(* an entry type that is neither CFE_APP nor CFE_LIB, returns               *)
(* CFE_ES_ERR_APP_CREATE, calls neither CFE_ES_AppCreate nor                *)
(* CFE_ES_LoadLibrary, and changes no table and no counter of the registry; *)
(* the parser is then at the start of the next record and still reading.    *)
(***************************************************************************)
C32_RejectedEntry ==
    [][(/\ nDispatched' = nDispatched + 1
        /\ \/ lastEntry'.numTokens < 8
           \/ lastEntry'.type \notin {"CFE_APP", "CFE_LIB"}) =>
           /\ lastEntry'.status = "CFE_ES_ERR_APP_CREATE"
           /\ pc' = pc
           /\ ac' = ac
           /\ ll' = ll
           /\ hist'.creates = hist.creates
           /\ hist'.libLoads = hist.libLoads
           /\ appVars' = appVars
           /\ libVars' = libVars
           /\ osal' = osal
           /\ lock' = lock
           /\ saPc' = "loop"
           /\ BuffLen' = 0
           /\ NumTokens' = 0
           /\ LineTooLong' = FALSE
           /\ pc'["SU"] = "idle"
      ]_vars

(* A record of too few tokens was rejected, and the record after it has    *)
(* been dispatched and has created an app.                                  *)
C32_Witness ==
    /\ lastEntry.called
    /\ lastEntry.rejectedBefore = 1
    /\ lastEntry.numTokens = 8
    /\ lastEntry.type = "CFE_APP"
    /\ hist.acRet["SU"].code = "CFE_SUCCESS"
    /\ RegisteredExternalApps = 1

(***************************************************************************)
(* C33: when the scan job keeps being called with a positive elapsed time,  *)
(* every external app that is WAITING is eventually cleaned up, its slot    *)
(* UNDEFINED at the return of CFE_ES_CleanUpApp, whatever its control       *)
(* request is or is overwritten with and whether or not steps of the        *)
(* clean-up fail; and a visit of the scan with an elapsed time of 0 leaves  *)
(* a non-zero grace timer as it is and does not process the request.        *)
(***************************************************************************)
C33_TeardownCompletes ==
    /\ \A i \in AppIdx :
          (AppTable[i].Type = EXTERNAL /\ AppTable[i].AppState = WAITING)
              ~> (/\ AppTable[i].AppState = UNDEFINED
                  /\ pc["BG"] = "pcr_cleaned"
                  /\ pcr.AppID = i)
    /\ [][\A i \in AppIdx :
             (/\ pc["BG"] = "scan_visit" /\ scan.i = i /\ scan' # scan
              /\ scan.ElapsedTime = 0
              /\ AppTable[i].Type = EXTERNAL
              /\ AppTable[i].AppState = WAITING
              /\ AppTable[i].AppTimerMsec > 0) =>
                 /\ AppTable'[i].AppTimerMsec = AppTable[i].AppTimerMsec
                 /\ AppTable'[i].AppState = WAITING
                 /\ pc'["BG"] = "scan_visit"]_vars

(* An app whose request was overwritten while it was WAITING and was not   *)
(* acted on by the first processing is in the last step of its clean-up,    *)
(* a step of which has failed.                                              *)
C33_Witness ==
    \E i \in AppIdx :
        /\ AppTable[i].AppState = WAITING
        /\ pc["BG"] = "cu_unload"
        /\ cu.AppId = i
        /\ hist.overwritten[i]
        /\ hist.pcrCount[i] = 2
        /\ AppTable[i].AppControlRequest = SYS_DELETE
        /\ hist.cuObs.failed

(***************************************************************************)
(* C34: whenever no task holds the shared-data lock, RegisteredTasks is     *)
(* the number of task records that are in use.                              *)
(***************************************************************************)
C34_TaskCountMatches ==
    lock = NoThread =>
        RegisteredTasks = Cardinality({k \in TaskIdx : TaskTable[k].RecordUsed})

(***************************************************************************)
(* C35: once every call of CFE_ES_LoadLibrary has returned, a call that     *)
(* returned CFE_ES_LIB_ALREADY_LOADED with library id L finds LibTable[L]   *)
(* in use under the name it asked for.                                      *)
(***************************************************************************)
C35_AlreadyLoadedHolds ==
    (\A t \in Threads : pc[t] = "idle") =>
        \A t \in Threads :
            hist.llRet[t].code = "CFE_ES_LIB_ALREADY_LOADED" =>
                /\ hist.llRet[t].id \in LibIdx
                /\ LibTable[hist.llRet[t].id].RecordUsed
                /\ LibTable[hist.llRet[t].id].LibName = hist.llRet[t].name

(* The places of a task between an acquisition of the shared-data lock and  *)
(* the release that follows it.                                             *)
LockedAt == {"ac_taskcreate", "scan_visit", "cu_child", "cu_unload", "gi_copy"}

(***************************************************************************)
(* C36: a task holds the shared-data lock exactly while it is between an    *)
(* acquisition and the matching release inside CFE_ES_AppCreate,            *)
(* CFE_ES_LoadLibrary, CFE_ES_RunAppTableScan, CFE_ES_CleanUpApp or         *)
(* CFE_ES_GetAppInfoInternal: it never holds the lock after a return, and   *)
(* every step that takes the lock found it free, and every step that        *)
(* frees it is a step of the holder.                                        *)
(***************************************************************************)
C36_LockBalance ==
    [][/\ \A t \in Threads : (lock' = t) <=> (pc'[t] \in LockedAt)
       /\ \A t \in Threads : (lock' = t /\ lock # t) =>
              (lock = NoThread /\ pc'[t] # pc[t])
       /\ \A t \in Threads : (lock = t /\ lock' # t) =>
              (lock' = NoThread /\ pc'[t] # pc[t])
      ]_vars

(* The three tasks are inside a function each, one of them holding the      *)
(* lock, after an app was cleaned up and a create has failed.               *)
C36_Witness ==
    /\ lock = "SU"
    /\ pc["SU"] = "gi_copy"
    /\ pc["BG"] = "pcr_cleaned"
    /\ pc["CMD"] = "ac_unload"

(***************************************************************************)
(* C37: CFE_ES_CleanupTaskResources returns CFE_SUCCESS only if its last    *)
(* pass found no object, no delete of an object failed in any pass, and     *)
(* the delete of the task succeeded.                                        *)
(***************************************************************************)
C37_SuccessIsClean ==
    (sw.pc = "done" /\ sw.Result = "CFE_SUCCESS") =>
        /\ sw.FoundObjects = 0
        /\ sw.worst = 0
        /\ ~osal.failed
        /\ sw.TaskId \notin osal.tasks

(* Every delete succeeded, but the last pass still found objects: the      *)
(* call did not return CFE_SUCCESS.                                         *)
C37_Witness ==
    /\ sw.pc = "done"
    /\ sw.worst = 0
    /\ ~osal.failed
    /\ sw.FoundObjects > 0
    /\ sw.Result = "CFE_ES_APP_CLEANUP_ERR"

(***************************************************************************)
(* C38: CFE_ES_StartApplications calls CFE_ES_ParseFileEntry exactly once   *)
(* at each ';' it reads while the record is not flagged too long, and at no *)
(* other step; after the '!', the end of the file or a read error it calls  *)
(* nothing, so content without a ';' is never dispatched.  The call gets    *)
(* between 1 and CFE_ES_STARTSCRIPT_MAX_TOKENS_PER_LINE tokens, which are   *)
(* the tokens of the record just ended: every token after the first was    *)
(* set, at the position then current, by a comma of this record.            *)
(***************************************************************************)
C38_DispatchPerRecord ==
    [][LET semi == \E en \in OtherEntries : SA_ReadSemicolon(en)
       IN /\ (semi /\ ~LineTooLong) =>
                /\ nDispatched' = nDispatched + 1
                /\ lastEntry'.numTokens \in 1 .. MAX_TOKENS_PER_LINE
                /\ lastEntry'.numTokens = NumTokens + 1
                /\ \A k \in 1 .. lastEntry'.numTokens :
                      lastEntry'.tokens[k] = TokenList[k - 1]
                /\ lastEntry'.tokens[1] = 0
                /\ NumTokens' = 0
          /\ ~(semi /\ ~LineTooLong) =>
                /\ nDispatched' = nDispatched
                /\ lastEntry' = lastEntry
          /\ saPc = "closed" => (nDispatched' = nDispatched /\ nReads' = nReads)
          /\ NumTokens' # NumTokens =>
                \/ NumTokens' = 0
                \/ /\ NumTokens' = NumTokens + 1
                   /\ TokenList'[NumTokens'] = BuffLen + 1
                   /\ \A k \in TokIdx : k # NumTokens' => TokenList'[k] = TokenList[k]
          /\ NumTokens' = NumTokens => TokenList' = TokenList \/ saPc = "open"
      ]_vars

(* Two records were dispatched, the second with three tokens, and the file  *)
(* ended inside a third record, which was not dispatched.                   *)
C38_Witness ==
    /\ saPc = "closed"
    /\ ~sentinel
    /\ nDispatched = 2
    /\ lastEntry.numTokens = 3
    /\ BuffLen > 0
    /\ NumTokens = 1

=============================================================================
